---- MODULE Spec2Model ----
(***************************************************************************)
(* Model of the running-network construction (src/src/osm.py), of the      *)
(* segment-aware point-to-point router (src/src/main.py, route) and of the *)
(* relational store with its graph cache (src/src/backend.py).             *)
(*                                                                         *)
(* Lengths and distances are metres, kept as integers; the 95% threshold   *)
(* of distance_at_end_of_segment is evaluated exactly (d*100 > len*95).    *)
(* Strings are TLA+ strings, built with \o and ToString as the code builds *)
(* them with + and str().                                                  *)
(***************************************************************************)
EXTENDS Integers, Sequences, FiniteSets, TLC

VARIABLES
    graph,        \* router: the loaded MultiGraph, a set of edge records
    snap_data,    \* router: the SnapDataForRouting of the request
    result,       \* router: the response of route, or pending
    osm_ids,      \* identity assigner: the osmid column, in row order
    segment_ids,  \* identity assigner: the segment_id column after assignment
    ids_done,     \* identity assigner: TRUE once assign_segment_ids returned
    network,      \* network builder: the OSMnx graph, [nodes, edges]
    highway_tags_to_filter,  \* network builder: the tags to leave out
    segment_gdf,  \* network builder: the edge frame, [ref_column, rows]
    geometry,     \* network builder: the feature collection handed to the
                  \* orientation normalizer, as it was handed over
    returned,     \* network builder: what the operation returned
    stage,        \* network builder: how far the operation has got
    run_areas,           \* store: table run_areas, rows in insertion order
    sub_run_areas,       \* store: table sub_run_areas
    logged_runs,         \* store: table logged_runs
    segment_traversals,  \* store: table segment_traversals
    ignored_segments,    \* store: table ignored_segments; the table has no
                         \* key, so per row the number of copies it holds
    run_ids_issued,      \* store: number of uuid4 values drawn so far
    graph_cache,         \* store: the lru_cache slot of get_run_area_graph
    calls,               \* store: per request, the operation in progress
    observed             \* store: what the last completed read returned

vars == <<graph, snap_data, result, osm_ids, segment_ids, ids_done,
          network, highway_tags_to_filter, segment_gdf, geometry, returned,
          stage, run_areas, sub_run_areas, logged_runs, segment_traversals,
          ignored_segments, run_ids_issued, graph_cache, calls, observed>>

routeVars == <<graph, snap_data, result>>
idVars == <<osm_ids, segment_ids, ids_done>>
networkVars == <<network, highway_tags_to_filter, segment_gdf, geometry,
                 returned, stage>>
tableVars == <<run_areas, sub_run_areas, logged_runs, segment_traversals,
               ignored_segments, run_ids_issued>>
storeVars == <<tableVars, graph_cache, calls, observed>>
pipelineVars == <<routeVars, idVars, networkVars>>

-----------------------------------------------------------------------------
(* Bounds of the model.                                                    *)

\* Number of nodes of the routing graphs (a ring 1-2-...-N-1 plus one
\* parallel edge between nodes 1 and 2).
NumNodes == 4

\* Largest number of rows handed to assign_segment_ids.
MaxEdges == 4

\* Largest number of features handed to the orientation normalizer alone.
MaxFeatures == 2

\* Number of nodes of the OSMnx graphs the network builder starts from (a
\* path 1-2-...-N plus one parallel edge between nodes 1 and 2).
NetNodes == 3

\* float("inf"): larger than every route length of the model.
Infinity == 1000000

-----------------------------------------------------------------------------
(* Small helpers.                                                          *)

Abs(x) == IF x < 0 THEN -x ELSE x

SetMin(S) == CHOOSE x \in S : \A y \in S : x <= y

RECURSIVE SeqSum(_)
SeqSum(s) == IF s = <<>> THEN 0 ELSE Head(s) + SeqSum(Tail(s))

-----------------------------------------------------------------------------
(* The routing graph: an undirected networkx MultiGraph.  An edge is       *)
(* [u, v, key, length, segment_id]; (u, v) is the orientation of the       *)
(* segment's geometry feature (start_node, end_node).                      *)

Nodes == 1..NumNodes

\* graph[a][b]: the parallel edges joining a and b, in either direction.
EdgesBetween(g, a, b) ==
    {e \in g : (e.u = a /\ e.v = b) \/ (e.u = b /\ e.v = a)}

\* graph[a][b][k] exists (no KeyError).
HasEdgeKey(g, a, b, k) == \E e \in EdgesBetween(g, a, b) : e.key = k

\* graph[a][b][k]["length"], graph.edges[(a, b, k)]["length"].
EdgeLength(g, a, b, k) ==
    (CHOOSE e \in EdgesBetween(g, a, b) : e.key = k).length

\* The weight networkx gives a hop of a MultiGraph: the least length among
\* the parallel edges.
HopWeight(g, a, b) == SetMin({e.length : e \in EdgesBetween(g, a, b)})

\* Node sequences without repetition that start with path and end in t.
RECURSIVE SimplePathsFrom(_, _, _)
SimplePathsFrom(g, path, t) ==
    LET last == path[Len(path)]
        seen == {path[i] : i \in 1..Len(path)}
        next == {n \in Nodes \ seen : EdgesBetween(g, last, n) # {}}
    IN  IF last = t THEN {path}
        ELSE UNION {SimplePathsFrom(g, Append(path, n), t) : n \in next}

PathWeight(g, p) ==
    SeqSum([i \in 1..(Len(p) - 1) |-> HopWeight(g, p[i], p[i + 1])])

\* networkx.shortest_path(graph, source, target, weight="length"): a node
\* path of least weight.  Which of several equally short paths is returned
\* depends on adjacency order, so every one of them is a possible return.
\* The empty set stands for NetworkXNoPath.
ShortestPaths(g, s, t) ==
    LET all == SimplePathsFrom(g, <<s>>, t)
    IN  {p \in all : \A q \in all : PathWeight(g, p) <= PathWeight(g, q)}

-----------------------------------------------------------------------------
(* route (src/src/main.py).                                                *)

distance_at_end_of_segment(segment_length_metres, distance_along) ==
    distance_along * 100 > segment_length_metres * 95

SegmentTraversal(id, sd, ed, sae, eae) ==
    [kind |-> "partial", segment_id |-> id,
     start_distance_metres |-> sd, end_distance_metres |-> ed,
     starts_at_end |-> sae, ends_at_end |-> eae]

FullSegmentTraversal(a, b, len) ==
    [kind |-> "full", start_node |-> a, end_node |-> b, length_metres |-> len]

Ok(r) == [status |-> "ok", route |-> r]
Raised == [status |-> "error", route |-> <<>>]
Pending == [status |-> "pending", route |-> <<>>]

\* Lines 469-489: both points on the same segment_id.
SameSegmentRoute(g, s) ==
    IF ~HasEdgeKey(g, s.from_segment_start_node, s.from_segment_end_node, 0)
    THEN Raised
    ELSE LET segment_length_metres ==
                 EdgeLength(g, s.from_segment_start_node,
                            s.from_segment_end_node, 0)
         IN  Ok(<<SegmentTraversal(
                     s.to_segment_id,
                     s.from_segment_distance_along_segment_metres,
                     s.to_segment_distance_along_segment_metres,
                     distance_at_end_of_segment(
                         segment_length_metres,
                         s.from_segment_distance_along_segment_metres),
                     distance_at_end_of_segment(
                         segment_length_metres,
                         s.to_segment_distance_along_segment_metres))>>)

\* common_nodes.pop() on a set of small ints: CPython keeps an int n in slot
\* n mod 8 of the table and pop takes the first occupied slot.
PopCommonNode(common_nodes) ==
    CHOOSE n \in common_nodes : \A m \in common_nodes : (n % 8) <= (m % 8)

\* Lines 505-555: the segments share a node.
AdjacentRoute(s, common_nodes, from_len, to_len) ==
    LET common_node == PopCommonNode(common_nodes)
        from_segment_to_end == common_node = s.from_segment_end_node
        to_segment_from_start == common_node = s.to_segment_start_node
        first ==
            IF from_segment_to_end
            THEN SegmentTraversal(
                     s.from_segment_id,
                     s.from_segment_distance_along_segment_metres,
                     from_len, FALSE, TRUE)
            ELSE SegmentTraversal(
                     s.from_segment_id,
                     s.from_segment_distance_along_segment_metres,
                     0, FALSE, FALSE)
        second ==
            IF to_segment_from_start
            THEN SegmentTraversal(
                     s.to_segment_id, 0,
                     s.to_segment_distance_along_segment_metres,
                     FALSE,
                     distance_at_end_of_segment(
                         to_len, s.to_segment_distance_along_segment_metres))
            ELSE SegmentTraversal(
                     s.to_segment_id, to_len,
                     s.to_segment_distance_along_segment_metres,
                     TRUE, FALSE)
    IN  Ok(<<first, second>>)

\* Lines 558-623: the four (source, target, start data, end data) tuples.
NodePairs(s, from_len, to_len) ==
    LET fd == s.from_segment_distance_along_segment_metres
        td == s.to_segment_distance_along_segment_metres
        seg(sd, ed, sae, eae) ==
            [start_distance_metres |-> sd, end_distance_metres |-> ed,
             starts_at_end |-> sae, ends_at_end |-> eae]
    IN  << [source |-> s.from_segment_start_node,
            target |-> s.to_segment_start_node,
            start_segment_data |-> seg(fd, 0, FALSE, FALSE),
            end_segment_data |-> seg(0, td, FALSE, FALSE)],
           [source |-> s.from_segment_start_node,
            target |-> s.to_segment_end_node,
            start_segment_data |-> seg(fd, 0, FALSE, FALSE),
            end_segment_data |-> seg(to_len, td, FALSE, FALSE)],
           [source |-> s.from_segment_end_node,
            target |-> s.to_segment_start_node,
            start_segment_data |-> seg(fd, from_len, FALSE, TRUE),
            end_segment_data |-> seg(0, td, FALSE, FALSE)],
           [source |-> s.from_segment_end_node,
            target |-> s.to_segment_end_node,
            start_segment_data |-> seg(fd, from_len, FALSE, TRUE),
            end_segment_data |-> seg(to_len, td, FALSE, FALSE)] >>

\* zip(nodes_in_route, nodes_in_route[1:])
PathEdges(p) == [i \in 1..(Len(p) - 1) |-> <<p[i], p[i + 1]>>]

\* Lines 627-656, one turn of the loop.  nodes_in_route is what
\* shortest_path returned, <<>> when it raised; every exception of the body
\* (no path, no key-0 edge on a hop) leaves the running minimum as it was.
TryPair(g, best, pair, nodes_in_route) ==
    LET edges == PathEdges(nodes_in_route)
        start_length_metres ==
            Abs(pair.start_segment_data.start_distance_metres
                - pair.start_segment_data.end_distance_metres)
            + Abs(pair.end_segment_data.start_distance_metres
                  - pair.end_segment_data.end_distance_metres)
        path_length_metres ==
            start_length_metres
            + SeqSum([i \in 1..Len(edges) |->
                        EdgeLength(g, edges[i][1], edges[i][2], 0)])
    IN  IF nodes_in_route = <<>> THEN best
        ELSE IF \E i \in 1..Len(edges) :
                    ~HasEdgeKey(g, edges[i][1], edges[i][2], 0)
        THEN best
        ELSE IF path_length_metres < best.min_length_metres
        THEN [min_length_metres |-> path_length_metres,
              min_length_path |-> edges,
              min_path_start_segment_data |-> pair.start_segment_data,
              min_path_end_segment_data |-> pair.end_segment_data]
        ELSE best

\* Lines 624-626: the running minimum before the loop.
NoMinimum ==
    [min_length_metres |-> Infinity, min_length_path |-> <<>>,
     min_path_start_segment_data |-> <<>>,
     min_path_end_segment_data |-> <<>>]

\* The loop of lines 627-656 over the first k node pairs.
RECURSIVE MinOverPairs(_, _, _, _)
MinOverPairs(g, pairs, paths, k) ==
    IF k = 0 THEN NoMinimum
    ELSE TryPair(g, MinOverPairs(g, pairs, paths, k - 1), pairs[k], paths[k])

\* Lines 662-686: the start partial, one full traversal per edge of the
\* path, the end partial.
BuildRoute(g, s, best) ==
    LET sd == best.min_path_start_segment_data
        ed == best.min_path_end_segment_data
        mp == best.min_length_path
    IN  <<SegmentTraversal(s.from_segment_id,
                           sd.start_distance_metres, sd.end_distance_metres,
                           sd.starts_at_end, sd.ends_at_end)>>
        \o [i \in 1..Len(mp) |->
              FullSegmentTraversal(mp[i][1], mp[i][2],
                                   EdgeLength(g, mp[i][1], mp[i][2], 0))]
        \o <<SegmentTraversal(s.to_segment_id,
                              ed.start_distance_metres, ed.end_distance_metres,
                              ed.starts_at_end, ed.ends_at_end)>>

\* GeneralRoute without the check of line 659: the start traversal is built
\* from the None start data and the request fails.
GeneralRouteUnguarded(g, s, from_len, to_len, paths) ==
    LET best == MinOverPairs(g, NodePairs(s, from_len, to_len), paths, 4)
    IN  IF best.min_length_path = <<>> THEN Raised
        ELSE Ok(BuildRoute(g, s, best))

\* Lines 558-686: the general case.  paths[k] is the return of
\* shortest_path for the k-th pair.
GeneralRoute(g, s, from_len, to_len, paths) ==
    LET best == MinOverPairs(g, NodePairs(s, from_len, to_len), paths, 4)
    IN  IF best.min_length_path = <<>> THEN Ok(<<>>)
        ELSE Ok(BuildRoute(g, s, best))

\* route, lines 461-686.
RouteResponse(g, s, paths) ==
    IF s.from_segment_id = s.to_segment_id THEN SameSegmentRoute(g, s)
    ELSE IF \/ ~HasEdgeKey(g, s.from_segment_start_node,
                           s.from_segment_end_node, 0)
            \/ ~HasEdgeKey(g, s.to_segment_start_node,
                           s.to_segment_end_node, 0)
    THEN Raised
    ELSE LET from_segment_nodes ==
                 {s.from_segment_start_node, s.from_segment_end_node}
             to_segment_nodes ==
                 {s.to_segment_start_node, s.to_segment_end_node}
             from_len == EdgeLength(g, s.from_segment_start_node,
                                    s.from_segment_end_node, 0)
             to_len == EdgeLength(g, s.to_segment_start_node,
                                  s.to_segment_end_node, 0)
             common_nodes == from_segment_nodes \cap to_segment_nodes
         IN  IF common_nodes # {}
             THEN AdjacentRoute(s, common_nodes, from_len, to_len)
             ELSE GeneralRoute(g, s, from_len, to_len, paths)

\* What shortest_path may hand back for (source, target): one of the
\* shortest node paths, or <<>> for NetworkXNoPath.
PathReturns(g, source, target) ==
    IF ShortestPaths(g, source, target) = {} THEN {<<>>}
    ELSE ShortestPaths(g, source, target)

\* The returns of the four shortest_path calls of one request; the calls
\* are made in the general case only.
GeneralCase(g, s) ==
    /\ s.from_segment_id # s.to_segment_id
    /\ {s.from_segment_start_node, s.from_segment_end_node}
         \cap {s.to_segment_start_node, s.to_segment_end_node} = {}

ShortestPathReturns(g, s) ==
    IF ~GeneralCase(g, s) THEN {<< <<>>, <<>>, <<>>, <<>> >>}
    ELSE {<<p1, p2, p3, p4>> :
            p1 \in PathReturns(g, s.from_segment_start_node,
                               s.to_segment_start_node),
            p2 \in PathReturns(g, s.from_segment_start_node,
                               s.to_segment_end_node),
            p3 \in PathReturns(g, s.from_segment_end_node,
                               s.to_segment_start_node),
            p4 \in PathReturns(g, s.from_segment_end_node,
                               s.to_segment_end_node)}

-----------------------------------------------------------------------------
(* The router as a state machine: a graph, one request, its response.      *)

\* Edge lengths and snapped distances the requests are drawn from (metres).
SegmentLengths == {10, 50}
SnapDistances == {0, 2, 3, 10, 40, 48, 50}

\* The places an edge may take: the ring 1-2-...-N-1 with key 0, and a
\* second, parallel edge between nodes 1 and 2 with key 1.
RingEdge(i, len) ==
    [u |-> i, v |-> (i % NumNodes) + 1, key |-> 0, length |-> len,
     segment_id |-> ToString(i) \o "_0"]

ParallelEdge(len) ==
    [u |-> 1, v |-> 2, key |-> 1, length |-> len, segment_id |-> "9_0"]

CandidateEdges ==
    {RingEdge(i, len) : i \in Nodes, len \in SegmentLengths}
    \cup {ParallelEdge(len) : len \in SegmentLengths}

\* A MultiGraph holds one edge per (u, v, key), and networkx numbers the
\* parallel edges of a node pair from key 0.
IsMultiGraph(g) ==
    /\ \A e, f \in g : (e.u = f.u /\ e.v = f.v /\ e.key = f.key) => e = f
    /\ \A e \in g : e.key > 0 => HasEdgeKey(g, e.u, e.v, e.key - 1)

\* The request the client builds from the features of two segments.
SnapData(e, d, f, t) ==
    [from_segment_id |-> e.segment_id,
     from_segment_distance_along_segment_metres |-> d,
     from_segment_start_node |-> e.u,
     from_segment_end_node |-> e.v,
     to_segment_id |-> f.segment_id,
     to_segment_distance_along_segment_metres |-> t,
     to_segment_start_node |-> f.u,
     to_segment_end_node |-> f.v]

NoSnapData == SnapData([segment_id |-> "", u |-> 0, v |-> 0], 0,
                       [segment_id |-> "", u |-> 0, v |-> 0], 0)

IdsIdle ==
    /\ osm_ids = <<>>
    /\ segment_ids = <<>>
    /\ ids_done = FALSE

\* The store before anything was written to it and with no request running.
EmptyCache == [filled |-> FALSE]
NoObservation == [op |-> "none"]

StoreIdle ==
    /\ run_areas = <<>>
    /\ sub_run_areas = <<>>
    /\ logged_runs = {}
    /\ segment_traversals = {}
    /\ ignored_segments = <<>>
    /\ run_ids_issued = 0
    /\ graph_cache = EmptyCache
    /\ calls = <<>>
    /\ observed = NoObservation

NoGraph == [nodes |-> <<>>, edges |-> {}]
NoFrame == [ref_column |-> FALSE, rows |-> <<>>]
NoReturn == [graph |-> NoGraph, geometry |-> <<>>]

NetworkIdle ==
    /\ network = NoGraph
    /\ highway_tags_to_filter = {}
    /\ segment_gdf = NoFrame
    /\ geometry = <<>>
    /\ returned = NoReturn
    /\ stage = "idle"

InitRoute ==
    /\ graph \in {g \in SUBSET CandidateEdges : g # {} /\ IsMultiGraph(g)}
    /\ \E e \in graph, f \in graph :
          \E d \in {x \in SnapDistances : x <= e.length},
             t \in {x \in SnapDistances : x <= f.length} :
             snap_data = SnapData(e, d, f, t)
    /\ result = Pending
    /\ IdsIdle
    /\ NetworkIdle
    /\ StoreIdle

\* POST /route
Route ==
    /\ result.status = "pending"
    /\ \E paths \in ShortestPathReturns(graph, snap_data) :
          result' = RouteResponse(graph, snap_data, paths)
    /\ UNCHANGED <<graph, snap_data, idVars, networkVars, storeVars>>

NextRoute == Route

SpecRoute == InitRoute /\ [][NextRoute]_vars

-----------------------------------------------------------------------------
(* What the router's claims speak of: the snapped segments themselves and  *)
(* the network distance between two snapped points.                        *)

RouteDone == result.status # "pending"

\* The edges the two points were snapped to.
FromSegment == CHOOSE e \in graph : e.segment_id = snap_data.from_segment_id
ToSegment == CHOOSE e \in graph : e.segment_id = snap_data.to_segment_id
FromDistance == snap_data.from_segment_distance_along_segment_metres
ToDistance == snap_data.to_segment_distance_along_segment_metres

\* Metres along edge e between the point at distance d and its end n.
AlongTo(e, d, n) == IF n = e.u THEN d ELSE e.length - d

\* Length of a shortest path between two nodes, Infinity when there is none.
NodeDistance(a, b) ==
    IF ShortestPaths(graph, a, b) = {} THEN Infinity
    ELSE PathWeight(graph, CHOOSE p \in ShortestPaths(graph, a, b) : TRUE)

\* Length of the way that leaves the from-segment at x and enters the
\* to-segment at y.
TotalVia(x, y) ==
    AlongTo(FromSegment, FromDistance, x) + NodeDistance(x, y)
    + AlongTo(ToSegment, ToDistance, y)

EndpointPairs ==
    {<<x, y>> : x \in {FromSegment.u, FromSegment.v},
                y \in {ToSegment.u, ToSegment.v}}

ReachablePairs == {p \in EndpointPairs : NodeDistance(p[1], p[2]) < Infinity}

NetworkDistance ==
    SetMin({TotalVia(p[1], p[2]) : p \in EndpointPairs}
           \cup (IF FromSegment = ToSegment
                 THEN {Abs(ToDistance - FromDistance)} ELSE {}))

\* Sum of |end_distance - start_distance| over the partial traversals and
\* of length_metres over the full ones.
RouteLength(r) ==
    SeqSum([i \in 1..Len(r) |->
              IF r[i].kind = "partial"
              THEN Abs(r[i].end_distance_metres - r[i].start_distance_metres)
              ELSE r[i].length_metres])

SharedNodes ==
    {FromSegment.u, FromSegment.v} \cap {ToSegment.u, ToSegment.v}

InSameSegmentCase ==
    RouteDone /\ snap_data.from_segment_id = snap_data.to_segment_id

InAdjacentCase ==
    /\ RouteDone
    /\ snap_data.from_segment_id # snap_data.to_segment_id
    /\ SharedNodes # {}

InGeneralCase == RouteDone /\ GeneralCase(graph, snap_data)

\* C1: whenever the two snapped points are connected, the returned route's
\* total length is the minimum network distance between them.
C1_RouteLengthIsNetworkDistance ==
    (RouteDone /\ NetworkDistance < Infinity) =>
        /\ result.status = "ok"
        /\ RouteLength(result.route) = NetworkDistance

\* The endpoint pair a general-case route was built from, read off its first
\* and last traversal.
SelectedPair(r) ==
    << IF r[1].ends_at_end THEN FromSegment.v ELSE FromSegment.u,
       IF r[Len(r)].start_distance_metres = 0
       THEN ToSegment.u ELSE ToSegment.v >>

\* C2: in the general case the selected endpoint pair has the least total
\* (point to endpoint + shortest path + endpoint to point) of all reachable
\* pairs, and the lengths of the returned sequence sum to that minimum.
C2_GeneralCaseSelectsMinimumPair ==
    (InGeneralCase /\ ReachablePairs # {}) =>
        /\ result.status = "ok"
        /\ result.route # <<>>
        /\ \A p \in ReachablePairs :
              TotalVia(SelectedPair(result.route)[1],
                       SelectedPair(result.route)[2]) <= TotalVia(p[1], p[2])
        /\ RouteLength(result.route)
             = SetMin({TotalVia(p[1], p[2]) : p \in ReachablePairs})

\* C3: on one segment the route is the single partial traversal from the
\* first distance to the second, each flag telling whether its distance
\* exceeds 95% of the segment's length.
C3_SameSegmentSinglePartial ==
    InSameSegmentCase =>
        result = Ok(<<SegmentTraversal(
                         FromSegment.segment_id, FromDistance, ToDistance,
                         FromDistance * 100 > FromSegment.length * 95,
                         ToDistance * 100 > FromSegment.length * 95)>>)

\* C4: for distinct segments sharing a node N the route is two partial
\* traversals, out of the from-segment at N's end of it and into the
\* to-segment from N's end of it, flagged by whether N is the end_node.
C4_AdjacentTwoPartials ==
    InAdjacentCase =>
        /\ result.status = "ok"
        /\ Len(result.route) = 2
        /\ \E n \in SharedNodes :
              LET a == result.route[1]
                  b == result.route[2]
              IN  /\ a.kind = "partial" /\ b.kind = "partial"
                  /\ a.segment_id = FromSegment.segment_id
                  /\ a.start_distance_metres = FromDistance
                  /\ a.end_distance_metres
                       = (IF n = FromSegment.v THEN FromSegment.length ELSE 0)
                  /\ a.ends_at_end = (n = FromSegment.v)
                  /\ b.segment_id = ToSegment.segment_id
                  /\ b.start_distance_metres
                       = (IF n = ToSegment.u THEN 0 ELSE ToSegment.length)
                  /\ b.end_distance_metres = ToDistance
                  /\ b.starts_at_end = (n = ToSegment.v)

\* The two snapped segments lie in different connected components.
Disconnected == ReachablePairs = {}

\* C5: for segments in different connected components route returns the
\* empty sequence and raises nothing.
C5_UnreachableGivesEmptyRoute ==
    (RouteDone /\ Disconnected) => result = Ok(<<>>)

C5_Witness ==
    /\ RouteDone
    /\ Disconnected
    /\ result = Ok(<<>>)

-----------------------------------------------------------------------------
(* Segment Identity Assigner (src/src/osm.py).  An osmid is what OSMnx     *)
(* hands over: an int, a str, or a list of ints, tagged with its type.     *)

IntId(n) == [type |-> "int", value |-> n]
StrId(t) == [type |-> "str", value |-> t]
ListId(l) == [type |-> "list", value |-> l]

\* "_".join(parts) for a sequence of strings.
RECURSIVE JoinWithUnderscore(_)
JoinWithUnderscore(parts) ==
    IF parts = <<>> THEN ""
    ELSE IF Len(parts) = 1 THEN parts[1]
    ELSE parts[1] \o "_" \o JoinWithUnderscore(Tail(parts))

\* clean_osm_ids keeping only the first way of a list.
clean_osm_ids_first_only(osm_id) ==
    IF osm_id.type = "str" THEN osm_id.value
    ELSE IF osm_id.type = "int" THEN ToString(osm_id.value)
    ELSE ToString(osm_id.value[1])

clean_osm_ids(osm_id) ==
    IF osm_id.type = "str" THEN osm_id.value
    ELSE IF osm_id.type = "int" THEN ToString(osm_id.value)
    ELSE JoinWithUnderscore(
             [i \in 1..Len(osm_id.value) |-> ToString(osm_id.value[i])])

\* The rows of one group of df.groupby(column), in row order.
GroupRows(column, key) ==
    LET InGroup(i) == column[i] = key
    IN  SelectSeq([i \in 1..Len(column) |-> i], InGroup)

\* groupby(...).ngroup() in place of cumcount(): the number of the row's
\* group, counting the groups in row order of their first row.
ngroup(column) ==
    [i \in 1..Len(column) |->
        Cardinality({GroupRows(column, column[j])[1] : j \in 1..i}) - 1]

\* df.groupby("segment_id").cumcount(): each row's place within its group,
\* from 0.
cumcount(column) ==
    [i \in 1..Len(column) |->
        LET rows == GroupRows(column, column[i])
        IN  (CHOOSE k \in 1..Len(rows) : rows[k] = i) - 1]

\* assign_segment_ids on the segment_id column of the frame.
assign_segment_ids(column) ==
    LET cleaned == [i \in 1..Len(column) |-> clean_osm_ids(column[i])]
        counts == cumcount(cleaned)
    IN  [i \in 1..Len(column) |-> cleaned[i] \o "_" \o ToString(counts[i])]

\* The osmids the rows are drawn from.
OsmIdValues ==
    {IntId(1), IntId(2), IntId(12), StrId("1_2"), ListId(<<1, 2>>),
     ListId(<<1>>)}

RouteIdle ==
    /\ graph = {}
    /\ snap_data = NoSnapData
    /\ result = Pending

InitIds ==
    /\ \E n \in 0..MaxEdges : osm_ids \in [1..n -> OsmIdValues]
    /\ segment_ids = <<>>
    /\ ids_done = FALSE
    /\ RouteIdle
    /\ NetworkIdle
    /\ StoreIdle

AssignSegmentIds ==
    /\ ~ids_done
    /\ segment_ids' = assign_segment_ids(osm_ids)
    /\ ids_done' = TRUE
    /\ UNCHANGED <<osm_ids, routeVars, networkVars, storeVars>>

NextIds == AssignSegmentIds

SpecIds == InitIds /\ [][NextIds]_vars

\* C6: the assigned segment_id values are pairwise distinct.
C6_SegmentIdsPairwiseDistinct ==
    ids_done =>
        \A i, j \in 1..Len(segment_ids) :
            i # j => segment_ids[i] # segment_ids[j]

\* Scalar 1 three times and the list [1, 2].
C6_Witness ==
    /\ ids_done
    /\ osm_ids = <<IntId(1), IntId(1), ListId(<<1, 2>>), IntId(1)>>
    /\ segment_ids = <<"1_0", "1_1", "1_2_0", "1_2">>

\* The normalized identifier as the claim words it: a list's elements
\* joined with "_", a scalar in its string form.
RECURSIVE JoinedUpTo(_, _)
JoinedUpTo(l, n) ==
    IF n = 1 THEN ToString(l[1])
    ELSE JoinedUpTo(l, n - 1) \o "_" \o ToString(l[n])

NormalizedIdentifier(id) ==
    CASE id.type = "list" -> JoinedUpTo(id.value, Len(id.value))
      [] id.type = "int" -> ToString(id.value)
      [] OTHER -> id.value

EarlierSame(k) ==
    {j \in 1..(k - 1) :
        NormalizedIdentifier(osm_ids[j]) = NormalizedIdentifier(osm_ids[k])}

\* C7: the k-th segment_id is the normalized identifier, "_", and the number
\* of earlier rows with the same normalized identifier.
C7_SegmentIdIsNormalizedIdPlusOccurrence ==
    ids_done =>
        /\ Len(segment_ids) = Len(osm_ids)
        /\ \A k \in 1..Len(osm_ids) :
              segment_ids[k]
                = NormalizedIdentifier(osm_ids[k]) \o "_"
                  \o ToString(Cardinality(EarlierSame(k)))

\* A list and a scalar with the same normalized identifier share a counter.
C7_Witness ==
    /\ ids_done
    /\ \E k \in 1..Len(osm_ids) :
          /\ osm_ids[k].type = "list"
          /\ Len(osm_ids[k].value) = 2
          /\ \E j \in EarlierSame(k) : osm_ids[j].type = "str"
          /\ segment_ids[k] = "1_2_1"

-----------------------------------------------------------------------------
(* Geometry Orientation Normalizer (src/src/osm.py).  A graph is           *)
(* [nodes, edges]: nodes maps a node to its [x, y], an edge is             *)
(* [u, v, key, osmid, length, geometry, highway, ref, segment_id].  A      *)
(* feature is [start_node, end_node, segment_id, length_m, coordinates],   *)
(* its properties and the coordinates of its geometry.                     *)

\* An attribute that is not set (None, NaN).
NoneValue == "None"

Reverse(seq) == [i \in 1..Len(seq) |-> seq[Len(seq) + 1 - i]]

\* graph[start_node][end_node][0] of an undirected MultiGraph.
IsKeyZeroEdge(e, start_node, end_node) ==
    /\ e.key = 0
    /\ \/ (e.u = start_node /\ e.v = end_node)
       \/ (e.u = end_node /\ e.v = start_node)

\* Lines 88-93: stamp the feature's segment_id on the key-0 edge between
\* its nodes; a KeyError leaves the graph as it is.
StampSegmentId(edges, feature) ==
    IF \E e \in edges :
          IsKeyZeroEdge(e, feature.start_node, feature.end_node)
    THEN {IF IsKeyZeroEdge(e, feature.start_node, feature.end_node)
          THEN [e EXCEPT !.segment_id = feature.segment_id]
          ELSE e : e \in edges}
    ELSE edges

\* OrientFeature that leaves a geometry ending at the start node as it is.
OrientFeatureNeverReversing(nodes, feature) ==
    LET node_props == nodes[feature.start_node]
        start_node_lng_lat == <<node_props.x, node_props.y>>
        coordinates == feature.coordinates
    IN  IF ~(\/ coordinates[1] = start_node_lng_lat
             \/ coordinates[Len(coordinates)] = start_node_lng_lat)
        THEN <<>>
        ELSE <<feature>>

\* OrientFeature that appends every feature, matching or not.
OrientFeatureNeverDropping(nodes, feature) ==
    LET node_props == nodes[feature.start_node]
        start_node_lng_lat == <<node_props.x, node_props.y>>
        coordinates == feature.coordinates
    IN  IF coordinates[Len(coordinates)] = start_node_lng_lat
        THEN <<[feature EXCEPT !.coordinates = Reverse(coordinates)]>>
        ELSE <<feature>>

\* Lines 95-114: what one feature adds to the list of kept features.
OrientFeature(nodes, feature) ==
    LET node_props == nodes[feature.start_node]
        start_node_lng_lat == <<node_props.x, node_props.y>>
        coordinates == feature.coordinates
        equals_start_of_geom == coordinates[1] = start_node_lng_lat
        equals_end_of_geom ==
            coordinates[Len(coordinates)] = start_node_lng_lat
    IN  IF ~(equals_start_of_geom \/ equals_end_of_geom) THEN <<>>
        ELSE IF equals_end_of_geom
        THEN <<[feature EXCEPT !.coordinates = Reverse(coordinates)]>>
        ELSE <<feature>>

\* Lines 82-120: the loop over the first k features.
RECURSIVE AgreeUpTo(_, _, _)
AgreeUpTo(g, features, k) ==
    IF k = 0 THEN [graph |-> g, geometry |-> <<>>]
    ELSE LET before == AgreeUpTo(g, features, k - 1)
         IN  [graph |->
                  [before.graph EXCEPT
                      !.edges = StampSegmentId(@, features[k])],
              geometry |->
                  before.geometry \o OrientFeature(g.nodes, features[k])]

make_sure_geometries_agree_with_start_end_nodes(g, features) ==
    AgreeUpTo(g, features, Len(features))

-----------------------------------------------------------------------------
(* The normalizer on its own: a graph over two nodes and any collection of *)
(* up to MaxFeatures features.                                             *)

NodePosition(n) == [x |-> n, y |-> 50 + n]
LngLat(n) == <<NodePosition(n).x, NodePosition(n).y>>

\* Two points that are no node's position.
Midpoint == <<0, 0>>
OtherMidpoint == <<0, 1>>

OsmEdge(u, v, key, osmid, length, coords, highway, ref) ==
    [u |-> u, v |-> v, key |-> key, osmid |-> osmid, length |-> length,
     geometry |-> coords, highway |-> highway, ref |-> ref,
     segment_id |-> NoneValue]

Feature(start_node, end_node, segment_id, length_m, coords) ==
    [start_node |-> start_node, end_node |-> end_node,
     segment_id |-> segment_id, length_m |-> length_m,
     coordinates |-> coords]

\* The line strings the features are drawn from: every two-point line over
\* the positions of nodes 1 and 2 and a third point, and some longer ones,
\* among them closed lines.
LineStrings ==
    LET points == {LngLat(1), LngLat(2), Midpoint}
    IN  {<<a, b>> : a \in points, b \in points}
        \cup {<<LngLat(1), Midpoint, LngLat(2)>>,
              <<LngLat(2), Midpoint, OtherMidpoint, LngLat(1)>>,
              <<LngLat(1), Midpoint, OtherMidpoint, LngLat(1)>>,
              <<LngLat(2), LngLat(1), Midpoint, LngLat(2)>>}

OrientGraphs ==
    LET plain(u, v, key) ==
            OsmEdge(u, v, key, IntId(1), 10, <<LngLat(u), LngLat(v)>>,
                    "residential", NoneValue)
        nodes == [n \in 1..2 |-> NodePosition(n)]
    IN  {[nodes |-> nodes, edges |-> es] :
            es \in {{}, {plain(1, 2, 0)}, {plain(1, 2, 0), plain(1, 2, 1)},
                    {plain(2, 2, 0)}}}

InitOrient ==
    /\ network \in OrientGraphs
    /\ \E n \in 0..MaxFeatures :
          \E nodes \in [1..n -> (1..2) \X (1..2)],
             lines \in [1..n -> LineStrings] :
             geometry =
                 [i \in 1..n |->
                     Feature(nodes[i][1], nodes[i][2],
                             ToString(i) \o "_0", 10, lines[i])]
    /\ highway_tags_to_filter = {}
    /\ segment_gdf = NoFrame
    /\ returned = NoReturn
    /\ stage = "geometry"
    /\ RouteIdle
    /\ IdsIdle
    /\ StoreIdle

\* make_sure_geometries_agree_with_start_end_nodes(graph, geometry): the
\* graph is stamped in place and returned with the kept features.
MakeGeometriesAgree ==
    /\ stage = "geometry"
    /\ LET refined_data ==
               make_sure_geometries_agree_with_start_end_nodes(
                   network, geometry)
       IN  /\ returned' = refined_data
           /\ network' = refined_data.graph
    /\ stage' = "agreed"
    /\ UNCHANGED <<geometry, highway_tags_to_filter, segment_gdf,
                   routeVars, idVars, storeVars>>

NextOrient == MakeGeometriesAgree

SpecOrient == InitOrient /\ [][NextOrient]_vars

StartPosition(feature) ==
    <<network.nodes[feature.start_node].x,
      network.nodes[feature.start_node].y>>

EndPosition(feature) ==
    <<network.nodes[feature.end_node].x, network.nodes[feature.end_node].y>>

FirstCoordinate(feature) == feature.coordinates[1]
LastCoordinate(feature) == feature.coordinates[Len(feature.coordinates)]

\* C8: every returned feature's first coordinate is the position of its
\* start_node.
C8_ReturnedFeaturesStartAtStartNode ==
    stage = "agreed" =>
        \A i \in 1..Len(returned.geometry) :
            FirstCoordinate(returned.geometry[i])
              = StartPosition(returned.geometry[i])

\* A feature handed over end-first comes back start-first.
C8_Witness ==
    /\ stage = "agreed"
    /\ \E i \in 1..Len(geometry), j \in 1..Len(returned.geometry) :
          /\ geometry[i].segment_id = returned.geometry[j].segment_id
          /\ FirstCoordinate(geometry[i]) # StartPosition(geometry[i])
          /\ FirstCoordinate(returned.geometry[j])
               = StartPosition(returned.geometry[j])

\* The features a rule keeps, in order: rule(f) is <<>> or <<f'>>.
RECURSIVE OutcomeUpTo(_, _)
OutcomeUpTo(outcome, k) ==
    IF k = 0 THEN <<>> ELSE OutcomeUpTo(outcome, k - 1) \o outcome[k]

\* C9 as stated: the first coordinate alone decides, against the start
\* node's position and then the end node's.
C9_StatedOutcome(f) ==
    IF FirstCoordinate(f) = StartPosition(f) THEN <<f>>
    ELSE IF FirstCoordinate(f) = EndPosition(f)
    THEN <<[f EXCEPT !.coordinates = Reverse(f.coordinates)]>>
    ELSE <<>>

\* C9 (as stated): a feature is kept unchanged when its first coordinate is
\* the start node's position, else kept reversed when it is the end node's
\* position, else dropped.
C9_DecidedByFirstCoordinate ==
    stage = "agreed" =>
        returned.geometry
          = OutcomeUpTo([i \in 1..Len(geometry) |->
                            C9_StatedOutcome(geometry[i])], Len(geometry))

\* C9 as amended: the first and the last coordinate are compared with the
\* start node's position, the last one deciding first.
C9_AmendedOutcome(f) ==
    CASE LastCoordinate(f) = StartPosition(f) ->
             <<[f EXCEPT !.coordinates = Reverse(f.coordinates)]>>
      [] /\ LastCoordinate(f) # StartPosition(f)
         /\ FirstCoordinate(f) = StartPosition(f) -> <<f>>
      [] OTHER -> <<>>

\* C9 (amended): a feature is kept reversed when its last coordinate is the
\* start node's position, else kept unchanged when its first coordinate is,
\* else dropped; the end node's position plays no part.
C9_DecidedByStartNodePosition ==
    stage = "agreed" =>
        returned.geometry
          = OutcomeUpTo([i \in 1..Len(geometry) |->
                            C9_AmendedOutcome(geometry[i])], Len(geometry))

\* One call that kept a feature unchanged, reversed a closed line and
\* dropped a feature.
C9_Witness ==
    /\ stage = "agreed"
    /\ Len(geometry) >= 2
    /\ Len(returned.geometry) < Len(geometry)
    /\ \E i \in 1..Len(geometry) :
          /\ FirstCoordinate(geometry[i]) = StartPosition(geometry[i])
          /\ LastCoordinate(geometry[i]) = StartPosition(geometry[i])
          /\ Reverse(geometry[i].coordinates) # geometry[i].coordinates
          /\ returned.geometry[1].coordinates
               = Reverse(geometry[i].coordinates)

-----------------------------------------------------------------------------
(* Network Builder (src/src/osm.py, preprocess_running_network), from the  *)
(* undirected OSMnx graph on.                                              *)

\* sub in text, for Python strings.
Contains(text, sub) ==
    \E i \in 1..(Len(text) - Len(sub) + 1) :
        SubSeq(text, i, i + Len(sub) - 1) = sub

\* graph.edges(keys=True): by first node, second node, key.
RECURSIVE EdgesInOrder(_)
EdgesInOrder(edges) ==
    IF edges = {} THEN <<>>
    ELSE LET rank(e) == (e.u * NetNodes + e.v) * 2 + e.key
             first == CHOOSE e \in edges : \A f \in edges : rank(e) <= rank(f)
         IN  <<first>> \o EdgesInOrder(edges \ {first})

\* Lines 68-77.
filter_highway_tags(rows, tags) ==
    LET tag_mask(row) == \E tag \in tags : Contains(row.highway, tag)
        Kept(row) == ~tag_mask(row)
    IN  SelectSeq(rows, Kept)

\* Lines 54-57: the rows whose ref holds no "M", then the column ref dropped
\* (a frame without the column reads NoneValue as every row's ref).
remove_motorways(df) ==
    LET NotMotorway(row) == ~(row.ref # NoneValue /\ Contains(row.ref, "M"))
        kept == SelectSeq(df.rows, NotMotorway)
    IN  [ref_column |-> FALSE,
         rows |-> [i \in 1..Len(kept) |-> [kept[i] EXCEPT !.ref = NoneValue]]]

\* Lines 146-168: the edges as a frame, filtered by highway tag, with the
\* columns picked and renamed.
SegmentFrame(g, tags) ==
    LET rows == filter_highway_tags(EdgesInOrder(g.edges), tags)
    IN  [ref_column |-> \E e \in g.edges : e.ref # NoneValue,
         rows |-> [i \in 1..Len(rows) |->
                     [start_node |-> rows[i].u, end_node |-> rows[i].v,
                      segment_id |-> rows[i].osmid,
                      length_m |-> rows[i].length,
                      geometry |-> rows[i].geometry,
                      ref |-> rows[i].ref]]]

\* Line 174: the frame as GeoJSON features.
FrameToFeatures(rows) ==
    [i \in 1..Len(rows) |->
        Feature(rows[i].start_node, rows[i].end_node, rows[i].segment_id,
                rows[i].length_m, rows[i].geometry)]

\* Lines 178-182: node_link_data with the geometry left out of every link.
GraphData(g) ==
    [nodes |-> g.nodes,
     edges |-> {[k \in (DOMAIN e) \ {"geometry"} |-> e[k]] : e \in g.edges}]

\* The OSMnx graphs: a path 1-2-...-N and a second edge between 1 and 2,
\* each edge with its way id(s), road class and line string.
RoadClasses ==
    {<<"residential", NoneValue>>, <<"footway", NoneValue>>,
     <<"motorway", "M1">>}

EdgeLines(u, v) ==
    {<<LngLat(u), LngLat(v)>>, <<LngLat(v), LngLat(u)>>,
     <<Midpoint, LngLat(v)>>}

EdgesAt(u, v, key) ==
    {OsmEdge(u, v, key, osmid, 10, line, class[1], class[2]) :
        osmid \in {IntId(1), ListId(<<1, 2>>)},
        class \in RoadClasses,
        line \in EdgeLines(u, v)}

RECURSIVE PathGraphs(_)
PathGraphs(n) ==
    IF n = 1
    THEN {{}} \cup {{a} : a \in EdgesAt(1, 2, 0)}
         \cup {{a, b} : a \in EdgesAt(1, 2, 0), b \in EdgesAt(1, 2, 1)}
    ELSE PathGraphs(n - 1)
         \cup {es \cup {a} : es \in PathGraphs(n - 1),
                             a \in EdgesAt(n, n + 1, 0)}

InitNetwork ==
    /\ \E es \in PathGraphs(NetNodes - 1) :
          /\ es # {}
          /\ network = [nodes |-> [n \in 1..NetNodes |-> NodePosition(n)],
                        edges |-> es]
    /\ highway_tags_to_filter \in {{}, {"foot"}}
    /\ segment_gdf = NoFrame
    /\ geometry = <<>>
    /\ returned = NoReturn
    /\ stage = "graph"
    /\ RouteIdle
    /\ IdsIdle
    /\ StoreIdle

\* Lines 146-168.
ToSegmentFrame ==
    /\ stage = "graph"
    /\ segment_gdf' = SegmentFrame(network, highway_tags_to_filter)
    /\ stage' = "frame"
    /\ UNCHANGED <<network, highway_tags_to_filter, geometry, returned,
                   routeVars, idVars, storeVars>>

\* Line 169.
AssignIdsToFrame ==
    /\ stage = "frame"
    /\ LET rows == segment_gdf.rows
           ids == assign_segment_ids(
                      [i \in 1..Len(rows) |-> rows[i].segment_id])
       IN  segment_gdf' =
               [segment_gdf EXCEPT
                   !.rows = [i \in 1..Len(rows) |->
                               [rows[i] EXCEPT !.segment_id = ids[i]]]]
    /\ stage' = "assigned"
    /\ UNCHANGED <<network, highway_tags_to_filter, geometry, returned,
                   routeVars, idVars, storeVars>>

\* Lines 170-174.
ToFeatures ==
    /\ stage = "assigned"
    /\ LET df == IF segment_gdf.ref_column
                 THEN remove_motorways(segment_gdf)
                 ELSE segment_gdf
       IN  /\ segment_gdf' = df
           /\ geometry' = FrameToFeatures(df.rows)
    /\ stage' = "geometry"
    /\ UNCHANGED <<network, highway_tags_to_filter, returned,
                   routeVars, idVars, storeVars>>

\* Lines 175-184.
OrientAndExport ==
    /\ stage = "geometry"
    /\ LET refined_data ==
               make_sure_geometries_agree_with_start_end_nodes(
                   network, geometry)
       IN  /\ network' = refined_data.graph
           /\ returned' = [graph |-> GraphData(refined_data.graph),
                           geometry |-> refined_data.geometry]
    /\ stage' = "done"
    /\ UNCHANGED <<geometry, highway_tags_to_filter, segment_gdf,
                   routeVars, idVars, storeVars>>

NextNetwork ==
    \/ ToSegmentFrame
    \/ AssignIdsToFrame
    \/ ToFeatures
    \/ OrientAndExport

SpecNetwork == InitNetwork /\ [][NextNetwork]_vars

FeaturesWithId(id) ==
    {i \in 1..Len(returned.geometry) : returned.geometry[i].segment_id = id}

LinksWithId(id) == {e \in returned.graph.edges : e.segment_id = id}

\* C10: in the output of preprocess_running_network every graph edge carries
\* the segment_id of exactly one returned feature and every returned feature
\* that of exactly one graph edge.
C10_EdgesAndFeaturesOneToOne ==
    stage = "done" =>
        /\ \A e \in returned.graph.edges :
              Cardinality(FeaturesWithId(e.segment_id)) = 1
        /\ \A i \in 1..Len(returned.geometry) :
              Cardinality(LinksWithId(returned.geometry[i].segment_id)) = 1

-----------------------------------------------------------------------------
(* The relational store (src/src/backend.py).                              *)
(*                                                                         *)
(* Every call of execute opens a connection, runs one statement and        *)
(* commits (lines 100-122): a statement is one atomic step, and a method   *)
(* that issues several statements can be interleaved with other requests   *)
(* between them. The endpoints that write runs and ignored segments are    *)
(* plain functions, which the server runs on a thread pool.                *)
(*                                                                         *)
(* Dates are day numbers: 1 stands for "2021-06-01", 2 for "2021-06-02";   *)
(* the order of the numbers is the order of the strings that the date      *)
(* clauses compare.                                                        *)

\* The requests that can be in progress at the same time.
Procs == {"first", "second"}

\* Largest number of runs that get stored (uuid4 values drawn).
MaxRuns == 2

\* A request slot before its first request.
Idle == [op |-> "idle", pc |-> "returned"]

\* The request of p has ended, by a return or by an uncaught exception.
Returned(p) == calls[p].pc \in {"returned", "raised"}

Usernames == {"ann", "bob"}

\* models.BaseRunArea
BaseRunArea(username, area_name) ==
    [username |-> username, area_name |-> area_name]

\* Absent optional argument (None).
NoDate == 0
Dates == {1, 2}

\* models.LoggedRun; segment_traversals is a set of [segment_id, traversals]
\* with one entry per segment_id (a dict); linestring is optional (None).
\* The columns of logged_runs that no statement of the model selects on
\* (distance, duration, comments) are left out.
LoggedRun(date, allow_multiple, traversals, linestring) ==
    [date |-> date, allow_multiple |-> allow_multiple,
     segment_traversals |-> traversals, linestring |-> linestring]

Linestrings == {NoneValue, "LINESTRING(3 3, 4 4)"}

TraversalMaps ==
    {{},
     {[segment_id |-> "1_0", traversals |-> 1],
      [segment_id |-> "2_0", traversals |-> 2]}}

\* The runs of the requests: logged by hand (no linestring), with or without
\* traversals, or uploaded with the line that was run.
LoggedRuns ==
    {LoggedRun(date, allow_multiple, traversals, NoneValue) :
        date \in Dates, allow_multiple \in BOOLEAN,
        traversals \in TraversalMaps}
    \cup {LoggedRun(date, allow_multiple, traversals, linestring) :
             date \in Dates, allow_multiple \in BOOLEAN,
             traversals \in TraversalMaps \ {{}},
             linestring \in Linestrings \ {NoneValue}}

\* execute: the fetched rows are returned only when expect_data is set,
\* otherwise the call returns None.
execute(rows, expect_data) ==
    IF expect_data THEN [none |-> FALSE, rows |-> rows] ELSE [none |-> TRUE]

\* A variant of the clauses whose upper bound is exclusive.
make_date_clause_before_end(date, start_date, end_date) ==
    IF start_date = NoDate /\ end_date = NoDate THEN TRUE
    ELSE IF start_date = NoDate THEN date < end_date
    ELSE IF end_date = NoDate THEN date >= start_date
    ELSE start_date <= date /\ date < end_date

\* make_date_clause
make_date_clause(date, start_date, end_date) ==
    IF start_date = NoDate /\ end_date = NoDate THEN TRUE
    ELSE IF start_date = NoDate THEN date <= end_date
    ELSE IF end_date = NoDate THEN date >= start_date
    ELSE start_date <= date /\ date <= end_date

\* runs_in_date_range: segment_traversals INNER JOIN the logged runs of the
\* area in the date range. A run without traversal rows yields no row.
runs_in_date_range(run_area, start_date, end_date) ==
    {[date |-> x[1].date, segment_id |-> x[2].segment_id,
      traversals |-> x[2].traversals, run_id |-> x[1].id] :
        x \in {y \in logged_runs \X segment_traversals :
                  /\ y[2].run_id = y[1].id
                  /\ y[1].username = run_area.username
                  /\ y[1].area_name = run_area.area_name
                  /\ make_date_clause(y[1].date, start_date, end_date)}}

run_on_date(run_area, date) == runs_in_date_range(run_area, date, date)

\* exists_run_on_date: bool(self.run_on_date(run_area, date))
exists_run_on_date(run_area, date) == run_on_date(run_area, date) # {}

\* ORDER BY date ASC: the rows by ascending date, rows of one date in the
\* order of their insertion (the model's ids are issued in that order).
RECURSIVE OrderByDateAsc(_)
OrderByDateAsc(rows) ==
    IF rows = {} THEN <<>>
    ELSE LET first == CHOOSE r \in rows :
                 \A q \in rows : \/ r.date < q.date
                                 \/ r.date = q.date /\ r.id <= q.id
         IN  <<first>> \o OrderByDateAsc(rows \ {first})

\* uploaded_runs_in_date_range reads logged_runs alone: date and linestring
\* of the runs of the area in the date range that have a linestring.
uploaded_runs_in_date_range(run_area, start_date, end_date) ==
    LET results ==
            OrderByDateAsc({r \in logged_runs :
                            /\ make_date_clause(r.date, start_date, end_date)
                            /\ r.username = run_area.username
                            /\ r.area_name = run_area.area_name
                            /\ r.linestring # NoneValue})
    IN  [i \in 1..Len(results) |->
            [date |-> results[i].date, linestring |-> results[i].linestring]]

\* store_run calls that passed the check of line 391 and have not drawn
\* their uuid yet.
AboutToInsert == {p \in Procs : calls[p].pc = "insert_logged_run"}

\* store_run, lines 391-394: the existence check and the conflict outcome.
StoreRun(p, run_area, run) ==
    /\ Returned(p)
    /\ IF ~run.allow_multiple /\ exists_run_on_date(run_area, run.date)
       THEN calls' = [calls EXCEPT ![p] =
                        [op |-> "store_run", pc |-> "returned",
                         run_area |-> run_area, run |-> run, run_id |-> 0,
                         status_code |-> 400]]
       ELSE /\ run_ids_issued + Cardinality(AboutToInsert) < MaxRuns
            /\ calls' = [calls EXCEPT ![p] =
                           [op |-> "store_run", pc |-> "insert_logged_run",
                            run_area |-> run_area, run |-> run, run_id |-> 0,
                            status_code |-> 0]]
    /\ UNCHANGED <<pipelineVars, tableVars, graph_cache, observed>>

\* store_run, lines 396-413: a fresh id and the logged_runs row.
InsertLoggedRun(p) ==
    /\ calls[p].pc = "insert_logged_run"
    /\ LET run_id == run_ids_issued + 1
       IN  /\ run_ids_issued' = run_id
           /\ logged_runs' = logged_runs \cup
                  {[id |-> run_id,
                    username |-> calls[p].run_area.username,
                    area_name |-> calls[p].run_area.area_name,
                    date |-> calls[p].run.date,
                    linestring |-> calls[p].run.linestring]}
           /\ calls' = [calls EXCEPT ![p].pc = "insert_segment_traversals",
                                     ![p].run_id = run_id]
    /\ UNCHANGED <<pipelineVars, run_areas, sub_run_areas, segment_traversals,
                   ignored_segments, graph_cache, observed>>

\* store_run, lines 415-424: the traversal rows, in one executemany.
InsertSegmentTraversals(p) ==
    /\ calls[p].pc = "insert_segment_traversals"
    /\ segment_traversals' = segment_traversals \cup
           {[run_id |-> calls[p].run_id, segment_id |-> t.segment_id,
             traversals |-> t.traversals] :
               t \in calls[p].run.segment_traversals}
    /\ calls' = [calls EXCEPT ![p].pc = "returned",
                              ![p].status_code = 200]
    /\ UNCHANGED <<pipelineVars, run_areas, sub_run_areas, logged_runs,
                   ignored_segments, run_ids_issued, graph_cache, observed>>

\* delete_runs_on_date, lines 627-636: the ids are selected without
\* expect_data, so execute returns None and iterating it raises TypeError;
\* lines 638-645 delete the selected runs and their traversals.
DeleteRunsOnDate(p, run_area, date) ==
    /\ Returned(p)
    /\ LET results ==
               execute({r.id : r \in
                          {lr \in logged_runs :
                              /\ lr.username = run_area.username
                              /\ lr.area_name = run_area.area_name
                              /\ lr.date = date}},
                       FALSE)
       IN  IF results.none
           THEN /\ calls' = [calls EXCEPT ![p] =
                               [op |-> "delete_runs_on_date",
                                pc |-> "raised", error |-> "TypeError",
                                run_area |-> run_area, date |-> date]]
                /\ UNCHANGED <<pipelineVars, logged_runs, segment_traversals>>
           ELSE /\ calls' = [calls EXCEPT ![p] =
                               [op |-> "delete_runs_on_date",
                                pc |-> "returned", error |-> "",
                                run_area |-> run_area, date |-> date]]
                /\ logged_runs' =
                       {lr \in logged_runs : lr.id \notin results.rows}
                /\ segment_traversals' =
                       {st \in segment_traversals :
                           st.run_id \notin results.rows}
    /\ UNCHANGED <<pipelineVars, run_areas, sub_run_areas, ignored_segments,
                   run_ids_issued, graph_cache, observed>>

\* GET /delete_run with an id (main.py, lines 254-255), for a user whose
\* active area is run_area: delete_run_by_id is called with the id alone.
\* Lines 649-650 of backend.py.
DeleteRunById(p, run_area, id) ==
    /\ Returned(p)
    /\ logged_runs' = {lr \in logged_runs : lr.id # id}
    /\ calls' = [calls EXCEPT ![p] =
                   [op |-> "delete_run_by_id", pc |-> "delete_traversals",
                    run_area |-> run_area, id |-> id]]
    /\ UNCHANGED <<pipelineVars, run_areas, sub_run_areas, segment_traversals,
                   ignored_segments, run_ids_issued, graph_cache, observed>>

\* delete_run_by_id, lines 652-653.
DeleteTraversalsById(p) ==
    /\ calls[p].pc = "delete_traversals"
    /\ segment_traversals' =
           {st \in segment_traversals : st.run_id # calls[p].id}
    /\ calls' = [calls EXCEPT ![p].pc = "returned"]
    /\ UNCHANGED <<pipelineVars, run_areas, sub_run_areas, logged_runs,
                   ignored_segments, run_ids_issued, graph_cache, observed>>

\* GET /runs without dates (all the runs of the area).
ReadRuns(run_area) ==
    /\ observed' = [op |-> "runs_in_date_range", run_area |-> run_area,
                    rows |-> runs_in_date_range(run_area, NoDate, NoDate)]
    /\ UNCHANGED <<pipelineVars, tableVars, graph_cache, calls>>

\* uploaded_runs_in_date_range without dates (a read of logged_runs alone).
ReadUploadedRuns(run_area) ==
    /\ observed' = [op |-> "uploaded_runs_in_date_range",
                    run_area |-> run_area,
                    rows |-> uploaded_runs_in_date_range(
                                 run_area, NoDate, NoDate)]
    /\ UNCHANGED <<pipelineVars, tableVars, graph_cache, calls>>

\* The areas the run requests of the model are made for.
RunRequestAreas ==
    {BaseRunArea("ann", "park"), BaseRunArea("ann", "p")}

InitRuns ==
    /\ run_areas = <<>>
    /\ sub_run_areas = <<>>
    /\ logged_runs = {}
    /\ segment_traversals = {}
    /\ ignored_segments = <<>>
    /\ run_ids_issued = 0
    /\ graph_cache = EmptyCache
    /\ calls = [p \in Procs |-> Idle]
    /\ observed = NoObservation
    /\ RouteIdle
    /\ IdsIdle
    /\ NetworkIdle

NextRuns ==
    \/ \E p \in Procs, run_area \in RunRequestAreas, run \in LoggedRuns :
          StoreRun(p, run_area, run)
    \/ \E p \in Procs : InsertLoggedRun(p)
    \/ \E p \in Procs : InsertSegmentTraversals(p)
    \/ \E p \in Procs, run_area \in RunRequestAreas, date \in Dates :
          DeleteRunsOnDate(p, run_area, date)
    \/ \E p \in Procs, run_area \in {BaseRunArea("ann", "p"),
                                     BaseRunArea("bob", "park")},
          id \in 1..MaxRuns :
          DeleteRunById(p, run_area, id)
    \/ \E p \in Procs : DeleteTraversalsById(p)
    \/ \E run_area \in RunRequestAreas : ReadRuns(run_area)
    \/ \E run_area \in RunRequestAreas : ReadUploadedRuns(run_area)

SpecRuns == InitRuns /\ [][NextRuns]_vars

-----------------------------------------------------------------------------
(* Claims about the run records.                                           *)

\* The logged runs of an area on a date, among the given rows.
RunsStoredOn(runs, run_area, date) ==
    {lr \in runs : /\ lr.username = run_area.username
                   /\ lr.area_name = run_area.area_name
                   /\ lr.date = date}

\* The step by which request p enters the named operation.
Starts(p, op) ==
    /\ Returned(p)
    /\ calls'[p] # calls[p]
    /\ calls'[p].op = op

\* C12: store_run with allow_multiple false, for an area and a date that
\* have exactly one logged run, returns the conflict outcome (status 400)
\* and leaves exactly that one run for the date, whatever the first run's
\* segment_traversals were (the empty mapping included).
C12_SecondRunOnDateIsConflict ==
    [][\A p \in Procs :
          (/\ Starts(p, "store_run")
           /\ ~calls'[p].run.allow_multiple
           /\ Cardinality(RunsStoredOn(logged_runs, calls'[p].run_area,
                                       calls'[p].run.date)) = 1)
          => /\ calls'[p].pc = "returned"
             /\ calls'[p].status_code = 400
             /\ Cardinality(RunsStoredOn(logged_runs', calls'[p].run_area,
                                         calls'[p].run.date)) = 1]_vars

\* The run row of request p is in logged_runs while one of the traversal
\* records of that run is not in segment_traversals.
HalfStored(p) ==
    /\ calls[p].op = "store_run"
    /\ \E lr \in logged_runs : lr.id = calls[p].run_id
    /\ \E t \in calls[p].run.segment_traversals :
          [run_id |-> calls[p].run_id, segment_id |-> t.segment_id,
           traversals |-> t.traversals] \notin segment_traversals

\* C13: at no moment does the store, as the statement of a concurrent
\* reader would find it, hold the row of a logged run without all of the
\* segment traversal records of that run.
C13_RunAndTraversalsVisibleTogether == \A p \in Procs : ~HalfStored(p)

\* C14: delete_runs_on_date(run_area, d) returns without an exception, and
\* it removes exactly the logged runs of that area with date d and the
\* segment traversal records of those runs, leaving every other row.
C14_DeleteRunsOnDateRemovesTheRuns ==
    [][\A p \in Procs :
          Starts(p, "delete_runs_on_date")
          => LET removed == RunsStoredOn(logged_runs, calls'[p].run_area,
                                         calls'[p].date)
             IN  /\ calls'[p].pc = "returned"
                 /\ logged_runs' = logged_runs \ removed
                 /\ segment_traversals' =
                        {st \in segment_traversals :
                            st.run_id \notin {lr.id : lr \in removed}}]_vars

-----------------------------------------------------------------------------
(* The ignored segments of an area (backend.py, lines 426-497).            *)
(*                                                                         *)
(* ignored_segments has no key and the same row can be inserted more than  *)
(* once; the table is the number of copies of each row, and the list that  *)
(* ignored_segment_ids returns is the number of entries per segment id.    *)

\* Largest number of segment ids in one SegmentList.
MaxIds == 2

IgnorableSegmentIds == {"1_0", "2_0"}

Range(seq) == {seq[i] : i \in 1..Len(seq)}

\* Number of entries of a list that equal x.
Count(seq, x) == Cardinality({i \in 1..Len(seq) : seq[i] = x})

\* models.SegmentCollection
SegmentCollection(username, area_name, listed_ids) ==
    [username |-> username, area_name |-> area_name,
     segment_ids |-> listed_ids]

IgnoredRow(run_area, segment_id) ==
    [username |-> run_area.username, area_name |-> run_area.area_name,
     segment_id |-> segment_id]

\* A row of ignored_segments belongs to the area.
InArea(row, run_area) ==
    /\ row.username = run_area.username
    /\ row.area_name = run_area.area_name

\* ignored_segment_ids: one entry per row of the area.
ignored_segment_ids(table, run_area) ==
    [segment_id \in IgnorableSegmentIds |->
        table[IgnoredRow(run_area, segment_id)]]

\* set(self.ignored_segment_ids(run_area)), line 471.
IgnoredSet(table, run_area) ==
    {segment_id \in IgnorableSegmentIds :
        ignored_segment_ids(table, run_area)[segment_id] > 0}

\* DELETE ... AND segment_id IN (...) without the area: every area loses
\* the ids.
remove_from_every_area(table, segment_collection) ==
    IF segment_collection.segment_ids = <<>> THEN table
    ELSE [row \in DOMAIN table |->
             IF row.segment_id \in Range(segment_collection.segment_ids)
             THEN 0 ELSE table[row]]

\* A DELETE that takes one row per listed id and leaves its other copies.
remove_one_row_per_id(table, segment_collection) ==
    IF segment_collection.segment_ids = <<>> THEN table
    ELSE [row \in DOMAIN table |->
             IF /\ InArea(row, segment_collection)
                /\ row.segment_id \in Range(segment_collection.segment_ids)
                /\ table[row] > 0
             THEN table[row] - 1 ELSE table[row]]

\* remove_from_ignored_segments, lines 438-452.
remove_from_ignored_segments(table, segment_collection) ==
    IF segment_collection.segment_ids = <<>> THEN table
    ELSE [row \in DOMAIN table |->
             IF /\ InArea(row, segment_collection)
                /\ row.segment_id \in Range(segment_collection.segment_ids)
             THEN 0 ELSE table[row]]

\* add_to_ignored_segments, lines 454-464: one row per list entry.
add_to_ignored_segments(table, segment_collection) ==
    IF segment_collection.segment_ids = <<>> THEN table
    ELSE [row \in DOMAIN table |->
             IF InArea(row, segment_collection)
             THEN table[row]
                  + Count(segment_collection.segment_ids, row.segment_id)
             ELSE table[row]]

\* Lines 473-477.
new_ignored_segment_ids(listed_ids, currently_ignored_segment_ids) ==
    SelectSeq(listed_ids,
              LAMBDA segment_id :
                  segment_id \notin currently_ignored_segment_ids)

\* Lines 486-490.
segment_ids_to_no_longer_ignore(listed_ids, currently_ignored) ==
    SelectSeq(listed_ids,
              LAMBDA segment_id : segment_id \in currently_ignored)

\* The request that toggles ignored segments; the other requests read.
Toggler == "first"

\* update_ignored_segments, lines 468-471: the currently ignored ids are
\* read. The call also notes whether the call before it had the same
\* SegmentCollection and what was ignored before that call, for the claim
\* about two calls in a row.
UpdateIgnoredSegments(p, segment_collection) ==
    /\ Returned(p)
    /\ LET repeats ==
               /\ calls[p].op = "update_ignored_segments"
               /\ calls[p].segment_collection = segment_collection
       IN  calls' = [calls EXCEPT ![p] =
                       [op |-> "update_ignored_segments", pc |-> "add",
                        segment_collection |-> segment_collection,
                        currently_ignored_segment_ids |->
                            IgnoredSet(ignored_segments, segment_collection),
                        repeats |-> repeats,
                        ignored_before_previous |->
                            IF repeats
                            THEN calls[p].currently_ignored_segment_ids
                            ELSE {}]]
    /\ UNCHANGED <<pipelineVars, tableVars, graph_cache, observed>>

\* update_ignored_segments, lines 473-484.
AddNewIgnoredSegments(p) ==
    /\ calls[p].pc = "add"
    /\ LET c == calls[p].segment_collection
       IN  ignored_segments' =
               add_to_ignored_segments(
                   ignored_segments,
                   SegmentCollection(
                       c.username, c.area_name,
                       new_ignored_segment_ids(
                           c.segment_ids,
                           calls[p].currently_ignored_segment_ids)))
    /\ calls' = [calls EXCEPT ![p].pc = "remove"]
    /\ UNCHANGED <<pipelineVars, run_areas, sub_run_areas, logged_runs,
                   segment_traversals, run_ids_issued, graph_cache,
                   observed>>

\* update_ignored_segments, lines 486-497.
RemoveNoLongerIgnoredSegments(p) ==
    /\ calls[p].pc = "remove"
    /\ LET c == calls[p].segment_collection
       IN  ignored_segments' =
               remove_from_ignored_segments(
                   ignored_segments,
                   SegmentCollection(
                       c.username, c.area_name,
                       segment_ids_to_no_longer_ignore(
                           c.segment_ids,
                           calls[p].currently_ignored_segment_ids)))
    /\ calls' = [calls EXCEPT ![p].pc = "returned"]
    /\ UNCHANGED <<pipelineVars, run_areas, sub_run_areas, logged_runs,
                   segment_traversals, run_ids_issued, graph_cache,
                   observed>>

\* GET /currently_ignored_segments
CurrentlyIgnoredSegments(run_area) ==
    /\ observed' =
           [op |-> "ignored_segment_ids", run_area |-> run_area,
            segment_ids |-> ignored_segment_ids(ignored_segments, run_area)]
    /\ UNCHANGED <<pipelineVars, tableVars, graph_cache, calls>>

\* The sequences over S of length at most n.
RECURSIVE SeqsUpTo(_, _)
SeqsUpTo(S, n) ==
    IF n = 0 THEN {<<>>}
    ELSE SeqsUpTo(S, n - 1)
         \cup {Append(seq, x) : seq \in SeqsUpTo(S, n - 1), x \in S}

\* The area whose ignored segments the requests of the model toggle, and
\* another area that has ignored segments of its own.
ToggledArea == BaseRunArea("ann", "park")
OtherArea == BaseRunArea("bob", "park")

IgnoredRows ==
    {IgnoredRow(run_area, segment_id) :
        run_area \in {ToggledArea, OtherArea},
        segment_id \in IgnorableSegmentIds}

SegmentCollections ==
    {SegmentCollection(ToggledArea.username, ToggledArea.area_name,
                       listed_ids) :
        listed_ids \in SeqsUpTo(IgnorableSegmentIds, MaxIds)}

InitIgnored ==
    /\ run_areas = <<>>
    /\ sub_run_areas = <<>>
    /\ logged_runs = {}
    /\ segment_traversals = {}
    /\ \E other \in SUBSET IgnorableSegmentIds :
          ignored_segments =
              [row \in IgnoredRows |->
                  IF InArea(row, OtherArea) /\ row.segment_id \in other
                  THEN 1 ELSE 0]
    /\ run_ids_issued = 0
    /\ graph_cache = EmptyCache
    /\ calls = [p \in Procs |-> Idle]
    /\ observed = NoObservation
    /\ RouteIdle
    /\ IdsIdle
    /\ NetworkIdle

NextIgnored ==
    \/ \E segment_collection \in SegmentCollections :
          UpdateIgnoredSegments(Toggler, segment_collection)
    \/ AddNewIgnoredSegments(Toggler)
    \/ RemoveNoLongerIgnoredSegments(Toggler)
    \/ \E run_area \in {ToggledArea, OtherArea} :
          CurrentlyIgnoredSegments(run_area)

SpecIgnored == InitIgnored /\ [][NextIgnored]_vars

-----------------------------------------------------------------------------
(* Claims about the ignored segments.                                      *)

SymmetricDifference(A, B) == (A \ B) \cup (B \ A)

\* A call of update_ignored_segments by request p that has returned.
ToggleReturned(p) ==
    /\ calls[p].op = "update_ignored_segments"
    /\ calls[p].pc = "returned"

\* C15: when update_ignored_segments with ids S has returned, no other
\* writer having run meanwhile, the ignored set of the area is the symmetric
\* difference of the set C it had at the start of the call and S; and no
\* step of the call changes a row of another area.
C15_ToggleIsSymmetricDifference ==
    /\ [](\A p \in Procs :
             ToggleReturned(p)
             => IgnoredSet(ignored_segments, calls[p].segment_collection)
                  = SymmetricDifference(
                        calls[p].currently_ignored_segment_ids,
                        Range(calls[p].segment_collection.segment_ids)))
    /\ [][\A p \in Procs :
             calls'[p].op = "update_ignored_segments"
             => \A row \in DOMAIN ignored_segments :
                   ~InArea(row, calls'[p].segment_collection)
                   => ignored_segments'[row] = ignored_segments[row]]_vars

\* A toggle has returned that both added and removed ids, while another
\* area has ignored segments of its own.
C15_Witness ==
    \E p \in Procs :
       /\ ToggleReturned(p)
       /\ Range(calls[p].segment_collection.segment_ids)
            \cap calls[p].currently_ignored_segment_ids # {}
       /\ Range(calls[p].segment_collection.segment_ids)
            \ calls[p].currently_ignored_segment_ids # {}
       /\ IgnoredSet(ignored_segments, OtherArea) # {}

\* C16: when update_ignored_segments has returned for the second time in a
\* row with the same segment id list (repeated ids allowed), the ignored set
\* of the area is the set it was before the first of the two calls.
C16_ToggleTwiceRestores ==
    \A p \in Procs :
       (ToggleReturned(p) /\ calls[p].repeats)
       => IgnoredSet(ignored_segments, calls[p].segment_collection)
            = calls[p].ignored_before_previous

\* The second of two equal calls has returned; the list names an id twice
\* and something was ignored before the first call.
C16_Witness ==
    \E p \in Procs :
       /\ ToggleReturned(p)
       /\ calls[p].repeats
       /\ Len(calls[p].segment_collection.segment_ids)
            > Cardinality(Range(calls[p].segment_collection.segment_ids))
       /\ calls[p].ignored_before_previous # {}

\* C17: while update_ignored_segments is under way, what a concurrent
\* ignored_segment_ids call reads for the area is the set before the toggle
\* or the set after it.
C17_ToggleIsOneUpdate ==
    \A p \in Procs :
       (calls[p].op = "update_ignored_segments" /\ ~Returned(p))
       => IgnoredSet(ignored_segments, calls[p].segment_collection)
            \in {calls[p].currently_ignored_segment_ids,
                 SymmetricDifference(
                     calls[p].currently_ignored_segment_ids,
                     Range(calls[p].segment_collection.segment_ids))}

-----------------------------------------------------------------------------
(* Run areas (backend.py, lines 213-344 and 821-873; main.py, 722-789).    *)

\* Largest number of rows of run_areas.
MaxAreaRows == 3

\* A nullable column: NULL, or a stored value.
Null == [null |-> TRUE]
Blob(value) == [null |-> FALSE, value |-> value]

\* A link of the node-link data that preprocess_running_network returns.
Link(u, v, key, segment_id) ==
    [source |-> u, target |-> v, key |-> key, segment_id |-> segment_id]

\* What area creation persists: the graph and the geometry (here the
\* segment ids of its features) of the retrieved network.
RetrievedGraph == {Link(1, 2, 0, "1_0")}
RetrievedGeometry == {"1_0"}

\* A row of run_areas; the polygon takes no part in any statement modelled.
RunAreaRow(username, area_name, graph_column, geometry_column, active) ==
    [username |-> username, area_name |-> area_name,
     graph |-> graph_column, geometry |-> geometry_column,
     active |-> active]

\* The rows of a table, kept in order, that satisfy a WHERE clause.
RowsOf(table, username) ==
    SelectSeq(table, LAMBDA row : row.username = username)

\* UPDATE run_areas SET active = 1 WHERE username = ? AND area_name = ?,
\* which leaves the flag of the user's other areas as it is.
set_active_without_clearing(table, username, area_name) ==
    [i \in 1..Len(table) |->
        IF table[i].username = username /\ table[i].area_name = area_name
        THEN [table[i] EXCEPT !.active = 1]
        ELSE table[i]]

\* set_active_area_for_user, lines 220-232: one UPDATE over the rows of the
\* user, 1 for the named area and 0 for the others.
set_active_area_for_user(table, username, area_name) ==
    [i \in 1..Len(table) |->
        IF table[i].username = username
        THEN [table[i] EXCEPT
                 !.active = IF table[i].area_name = area_name THEN 1 ELSE 0]
        ELSE table[i]]

\* get_active_area_for_user, lines 240-262: the first active row of the
\* user, if any.
ActiveRows(table, username) ==
    SelectSeq(table, LAMBDA row : row.username = username /\ row.active = 1)

HasActiveArea(table, username) == ActiveRows(table, username) # <<>>

\* insert_run_area_graph / insert_run_area_geometry: UPDATE ... WHERE
\* username = ? AND area_name = ?
SetColumn(table, username, area_name, column, value) ==
    [i \in 1..Len(table) |->
        IF table[i].username = username /\ table[i].area_name = area_name
        THEN IF column = "graph"
             THEN [table[i] EXCEPT !.graph = value]
             ELSE [table[i] EXCEPT !.geometry = value]
        ELSE table[i]]

\* The columns of the tables that remove_run_area selects from.
Columns(table_name) ==
    IF table_name = "run_areas"
    THEN {"username", "area_name", "polygon", "graph", "geometry", "active"}
    ELSE IF table_name = "ignored_segments"
    THEN {"username", "area_name", "segment_id"}
    ELSE {}

\* area_name, *_ = <a str>: the first character of the string.
FirstCharacter(text) == SubSeq(text, 1, 1)

\* create_run_area, lines 768-777: has_active_area is read from the current
\* user and the retrieval is handed to a background task.
CreateRunArea(p, username, area_name) ==
    /\ Returned(p)
    /\ Len(run_areas)
         + Cardinality({q \in Procs :
                           calls[q].pc \in {"insert_run_area_check",
                                            "insert_run_area"}})
         < MaxAreaRows
    /\ calls' = [calls EXCEPT ![p] =
                   [op |-> "create_run_area", pc |-> "insert_run_area_check",
                    username |-> username, area_name |-> area_name,
                    has_active_area |-> HasActiveArea(run_areas, username),
                    error |-> ""]]
    /\ UNCHANGED <<pipelineVars, tableVars, graph_cache, observed>>

\* insert_run_area, lines 304-306: the area must not exist yet.
InsertRunAreaCheck(p) ==
    /\ calls[p].pc = "insert_run_area_check"
    /\ LET existing_areas == RowsOf(run_areas, calls[p].username)
       IN  IF \E i \in 1..Len(existing_areas) :
                 existing_areas[i].area_name = calls[p].area_name
           THEN calls' = [calls EXCEPT ![p].pc = "raised",
                                       ![p].error = "RunAreaExistsError"]
           ELSE calls' = [calls EXCEPT ![p].pc = "insert_run_area"]
    /\ UNCHANGED <<pipelineVars, tableVars, graph_cache, observed>>

\* insert_run_area, lines 308-318: the row, not active, without artifacts.
InsertRunArea(p) ==
    /\ calls[p].pc = "insert_run_area"
    /\ run_areas' = Append(run_areas,
                           RunAreaRow(calls[p].username, calls[p].area_name,
                                      Null, Null, 0))
    /\ calls' = [calls EXCEPT ![p].pc = "insert_run_area_graph"]
    /\ UNCHANGED <<pipelineVars, sub_run_areas, logged_runs,
                   segment_traversals, ignored_segments, run_ids_issued,
                   graph_cache, observed>>

\* retrieve_graph_and_geometry, line 750.
InsertRunAreaGraph(p) ==
    /\ calls[p].pc = "insert_run_area_graph"
    /\ run_areas' = SetColumn(run_areas, calls[p].username,
                              calls[p].area_name, "graph",
                              Blob(RetrievedGraph))
    /\ calls' = [calls EXCEPT ![p].pc = "insert_run_area_geometry"]
    /\ UNCHANGED <<pipelineVars, sub_run_areas, logged_runs,
                   segment_traversals, ignored_segments, run_ids_issued,
                   graph_cache, observed>>

\* retrieve_graph_and_geometry, lines 751-753.
InsertRunAreaGeometry(p) ==
    /\ calls[p].pc = "insert_run_area_geometry"
    /\ run_areas' = SetColumn(run_areas, calls[p].username,
                              calls[p].area_name, "geometry",
                              Blob(RetrievedGeometry))
    /\ calls' = [calls EXCEPT
                    ![p].pc = IF calls[p].has_active_area
                              THEN "returned" ELSE "set_active_area"]
    /\ UNCHANGED <<pipelineVars, sub_run_areas, logged_runs,
                   segment_traversals, ignored_segments, run_ids_issued,
                   graph_cache, observed>>

\* retrieve_graph_and_geometry, lines 753-756.
ActivateCreatedArea(p) ==
    /\ calls[p].pc = "set_active_area"
    /\ run_areas' = set_active_area_for_user(run_areas, calls[p].username,
                                             calls[p].area_name)
    /\ calls' = [calls EXCEPT ![p].pc = "returned"]
    /\ UNCHANGED <<pipelineVars, sub_run_areas, logged_runs,
                   segment_traversals, ignored_segments, run_ids_issued,
                   graph_cache, observed>>

\* POST /set_active_area, lines 181-192.
SetActiveArea(p, username, area_name) ==
    /\ Returned(p)
    /\ run_areas' = set_active_area_for_user(run_areas, username, area_name)
    /\ calls' = [calls EXCEPT ![p] =
                   [op |-> "set_active_area", pc |-> "returned",
                    username |-> username, area_name |-> area_name]]
    /\ UNCHANGED <<pipelineVars, sub_run_areas, logged_runs,
                   segment_traversals, ignored_segments, run_ids_issued,
                   graph_cache, observed>>

\* remove_run_area, lines 826-837: the active flag of the area is fetched;
\* what comes back is a row (a tuple, true whatever it holds) or None. The
\* call also notes the ids of the runs logged for the area, for the claim
\* about their traversal records.
RemoveRunArea(p, run_area) ==
    /\ Returned(p)
    /\ calls' = [calls EXCEPT ![p] =
                   [op |-> "remove_run_area", pc |-> "select_other_areas",
                    run_area |-> run_area,
                    active |->
                        \E i \in 1..Len(run_areas) :
                           InArea(run_areas[i], run_area),
                    run_area_names |-> <<>>, error |-> "",
                    logged_run_ids |->
                        {row.id : row \in {lr \in logged_runs :
                                              InArea(lr, run_area)}}]]
    /\ UNCHANGED <<pipelineVars, tableVars, graph_cache, observed>>

\* remove_run_area, lines 839-850: one other area of the user is fetched
\* (fetchone). None cannot be iterated (TypeError); a row is iterated as
\* the tuple it is, and unpacking its area name keeps the first character.
SelectOtherAreas(p) ==
    /\ calls[p].pc = "select_other_areas"
    /\ LET others ==
               SelectSeq(run_areas,
                         LAMBDA row :
                             /\ row.username = calls[p].run_area.username
                             /\ row.area_name # calls[p].run_area.area_name)
       IN  IF others = <<>>
           THEN calls' = [calls EXCEPT ![p].pc = "raised",
                                       ![p].error = "TypeError"]
           ELSE calls' =
                   [calls EXCEPT
                       ![p].run_area_names =
                           <<FirstCharacter(others[1].area_name)>>,
                       ![p].pc = IF calls[p].active
                                 THEN "set_other_area_active"
                                 ELSE "select_run_ids"]
    /\ UNCHANGED <<pipelineVars, tableVars, graph_cache, observed>>

\* remove_run_area, lines 850-851.
SetOtherAreaActive(p) ==
    /\ calls[p].pc = "set_other_area_active"
    /\ run_areas' = set_active_area_for_user(run_areas,
                                             calls[p].run_area.username,
                                             calls[p].run_area_names[1])
    /\ calls' = [calls EXCEPT ![p].pc = "select_run_ids"]
    /\ UNCHANGED <<pipelineVars, sub_run_areas, logged_runs,
                   segment_traversals, ignored_segments, run_ids_issued,
                   graph_cache, observed>>

\* remove_run_area, lines 853-873: SELECT id FROM ignored_segments raises
\* OperationalError when the table has no such column; otherwise the
\* traversals whose run_id is one of the selected ids and the rows of the
\* area in run_areas, sub_run_areas, ignored_segments and logged_runs are
\* deleted.
SelectRunIdsAndDelete(p) ==
    /\ calls[p].pc = "select_run_ids"
    /\ IF "id" \notin Columns("ignored_segments")
       THEN /\ calls' = [calls EXCEPT ![p].pc = "raised",
                                      ![p].error = "OperationalError"]
            /\ UNCHANGED <<run_areas, sub_run_areas, logged_runs,
                           segment_traversals, ignored_segments>>
       ELSE LET run_ids ==
                    {row.id : row \in
                        {r \in DOMAIN ignored_segments :
                            /\ InArea(r, calls[p].run_area)
                            /\ ignored_segments[r] > 0}}
            IN  /\ calls' = [calls EXCEPT ![p].pc = "returned"]
                /\ segment_traversals' =
                       {st \in segment_traversals : st.run_id \notin run_ids}
                /\ run_areas' =
                       SelectSeq(run_areas,
                                 LAMBDA row : ~InArea(row, calls[p].run_area))
                /\ sub_run_areas' =
                       [row \in DOMAIN sub_run_areas |->
                           IF InArea(row, calls[p].run_area)
                           THEN 0 ELSE sub_run_areas[row]]
                /\ ignored_segments' =
                       [row \in DOMAIN ignored_segments |->
                           IF InArea(row, calls[p].run_area)
                           THEN 0 ELSE ignored_segments[row]]
                /\ logged_runs' =
                       {row \in logged_runs :
                           ~InArea(row, calls[p].run_area)}
    /\ UNCHANGED <<pipelineVars, run_ids_issued, graph_cache, observed>>

\* models.SubRunArea; polygon is optional (None).
SubRunArea(username, area_name, sub_area_name, polygon) ==
    [username |-> username, area_name |-> area_name,
     sub_area_name |-> sub_area_name, polygon |-> polygon]

\* A row of sub_run_areas (the polygon column, which no statement selects
\* on, is left out). The table has no key: it is the number of copies of
\* each row.
SubRunAreaRow(sub_run_area) ==
    [username |-> sub_run_area.username,
     area_name |-> sub_run_area.area_name,
     sub_area_name |-> sub_run_area.sub_area_name]

\* get_sub_run_area, lines 730-759: is there a row of that name.
get_sub_run_area(table, sub_run_area) ==
    table[SubRunAreaRow(sub_run_area)] > 0

\* insert_sub_run_area, lines 790-795: a sub run area without polygon and one
\* that get_sub_run_area finds are refused with an exception.
InsertSubRunArea(p, sub_run_area) ==
    /\ Returned(p)
    /\ calls' = [calls EXCEPT ![p] =
                   IF sub_run_area.polygon = NoneValue
                   THEN [op |-> "insert_sub_run_area", pc |-> "raised",
                         error |-> "MissingPolygonError",
                         sub_run_area |-> sub_run_area]
                   ELSE IF get_sub_run_area(sub_run_areas, sub_run_area)
                   THEN [op |-> "insert_sub_run_area", pc |-> "raised",
                         error |-> "SubRunAreaExistsError",
                         sub_run_area |-> sub_run_area]
                   ELSE [op |-> "insert_sub_run_area",
                         pc |-> "insert_sub_run_area_row", error |-> "",
                         sub_run_area |-> sub_run_area]]
    /\ UNCHANGED <<pipelineVars, tableVars, graph_cache, observed>>

\* insert_sub_run_area, lines 797-804: the INSERT, a statement of its own.
InsertSubRunAreaRow(p) ==
    /\ calls[p].pc = "insert_sub_run_area_row"
    /\ sub_run_areas' =
           [sub_run_areas EXCEPT ![SubRunAreaRow(calls[p].sub_run_area)] =
                                     @ + 1]
    /\ calls' = [calls EXCEPT ![p].pc = "returned"]
    /\ UNCHANGED <<pipelineVars, run_areas, logged_runs, segment_traversals,
                   ignored_segments, run_ids_issued, graph_cache, observed>>

\* remove_sub_run_area, lines 806-819: every row of that name is deleted.
RemoveSubRunArea(p, sub_run_area) ==
    /\ Returned(p)
    /\ sub_run_areas' =
           [sub_run_areas EXCEPT ![SubRunAreaRow(sub_run_area)] = 0]
    /\ calls' = [calls EXCEPT ![p] =
                   [op |-> "remove_sub_run_area", pc |-> "returned",
                    error |-> "", sub_run_area |-> sub_run_area]]
    /\ UNCHANGED <<pipelineVars, run_areas, logged_runs, segment_traversals,
                   ignored_segments, run_ids_issued, graph_cache, observed>>

\* The sub run areas that the requests of the model insert and remove.
SubRunAreaRequests ==
    {SubRunArea("ann", "park", "north", polygon) :
        polygon \in {NoneValue, "POLYGON((1 1, 1 2, 2 2, 1 1))"}}

SubRunAreaRows == {SubRunAreaRow(sub_run_area) :
                      sub_run_area \in SubRunAreaRequests}

\* The areas that the requests of the model create, activate and remove.
AreaRequests ==
    {BaseRunArea("ann", "park"), BaseRunArea("ann", "p"),
     BaseRunArea("bob", "park")}

\* The store is new, or ann has created the area park before and has a
\* sub-area, an ignored segment and a logged run with a traversal in it.
InitAreas ==
    /\ \E populated \in BOOLEAN :
          /\ run_areas =
                 IF populated
                 THEN <<RunAreaRow("ann", "park", Blob(RetrievedGraph),
                                   Blob(RetrievedGeometry), 1)>>
                 ELSE <<>>
          /\ sub_run_areas =
                 [row \in SubRunAreaRows |-> IF populated THEN 1 ELSE 0]
          /\ ignored_segments =
                 [row \in IgnoredRows |->
                     IF /\ populated
                        /\ row = IgnoredRow(ToggledArea, "1_0")
                     THEN 1 ELSE 0]
          /\ logged_runs =
                 IF populated
                 THEN {[id |-> 1, username |-> "ann", area_name |-> "park",
                        date |-> 1, linestring |-> NoneValue]}
                 ELSE {}
          /\ segment_traversals =
                 IF populated
                 THEN {[run_id |-> 1, segment_id |-> "1_0",
                        traversals |-> 1]}
                 ELSE {}
          /\ run_ids_issued = IF populated THEN 1 ELSE 0
    /\ graph_cache = EmptyCache
    /\ calls = [p \in Procs |-> Idle]
    /\ observed = NoObservation
    /\ RouteIdle
    /\ IdsIdle
    /\ NetworkIdle

NextAreas ==
    \/ \E p \in Procs, run_area \in AreaRequests :
          CreateRunArea(p, run_area.username, run_area.area_name)
    \/ \E p \in Procs : InsertRunAreaCheck(p)
    \/ \E p \in Procs : InsertRunArea(p)
    \/ \E p \in Procs : InsertRunAreaGraph(p)
    \/ \E p \in Procs : InsertRunAreaGeometry(p)
    \/ \E p \in Procs : ActivateCreatedArea(p)
    \/ \E p \in Procs, run_area \in AreaRequests :
          SetActiveArea(p, run_area.username, run_area.area_name)
    \/ \E p \in Procs, run_area \in AreaRequests : RemoveRunArea(p, run_area)
    \/ \E p \in Procs : SelectOtherAreas(p)
    \/ \E p \in Procs : SetOtherAreaActive(p)
    \/ \E p \in Procs : SelectRunIdsAndDelete(p)
    \/ \E p \in Procs, sub_run_area \in SubRunAreaRequests :
          InsertSubRunArea(p, sub_run_area)
    \/ \E p \in Procs : InsertSubRunAreaRow(p)
    \/ \E p \in Procs, sub_run_area \in SubRunAreaRequests :
          RemoveSubRunArea(p, sub_run_area)

SpecAreas == InitAreas /\ [][NextAreas]_vars

-----------------------------------------------------------------------------
(* Claims about run areas.                                                 *)

\* The area names of the user that have a row with the active flag set.
ActiveAreaNames(username) ==
    {ActiveRows(run_areas, username)[i].area_name :
        i \in 1..Len(ActiveRows(run_areas, username))}

\* The area names of the user that have a row.
AreaNamesOf(username) ==
    {RowsOf(run_areas, username)[i].area_name :
        i \in 1..Len(RowsOf(run_areas, username))}

\* C18: in every state reached by interleaved area creations, activations
\* and removals, the areas of a username that have the active flag set are
\* at most one (an area being a username with an area name).
C18_AtMostOneActiveAreaPerUser ==
    \A username \in Usernames :
       Cardinality(ActiveAreaNames(username)) <= 1

\* A user with two areas has switched the active area by POST
\* /set_active_area: the named area is the active one, the other is not.
C18_Witness ==
    \E p \in Procs :
       /\ calls[p].op = "set_active_area"
       /\ Cardinality(AreaNamesOf(calls[p].username)) = 2
       /\ ActiveAreaNames(calls[p].username) = {calls[p].area_name}
       /\ \E q \in Procs :
             /\ calls[q].op = "create_run_area"
             /\ calls[q].pc = "returned"
             /\ calls[q].username = calls[p].username
             /\ calls[q].area_name # calls[p].area_name

\* C19: when remove_run_area has ended for an area that existed, it has
\* returned without an exception and the store holds no run_areas row, no
\* sub-area, no ignored segment and no logged run of the area and no
\* traversal record of a run that was logged for it.
C19_RemoveRunAreaCascades ==
    \A p \in Procs :
       (/\ calls[p].op = "remove_run_area"
        /\ Returned(p)
        /\ calls[p].active)
       => /\ calls[p].pc = "returned"
          /\ \A i \in 1..Len(run_areas) :
                ~InArea(run_areas[i], calls[p].run_area)
          /\ \A row \in DOMAIN sub_run_areas :
                InArea(row, calls[p].run_area) => sub_run_areas[row] = 0
          /\ \A row \in DOMAIN ignored_segments :
                InArea(row, calls[p].run_area) => ignored_segments[row] = 0
          /\ \A row \in logged_runs : ~InArea(row, calls[p].run_area)
          /\ \A row \in segment_traversals :
                row.run_id \notin calls[p].logged_run_ids

-----------------------------------------------------------------------------
(* Loading the graph of an area (backend.py, lines 346-363; main.py,       *)
(* lines 106-122).                                                         *)
(*                                                                         *)
(* get_run_area_graph is wrapped in lru_cache(maxsize=1): the cache holds  *)
(* the arguments of the last miss and the object that call returned, and a *)
(* hit hands out that same object again. get_routing_graph reads the graph *)
(* and, with respect_ignored, the ignored ids by two statements, each in   *)
(* its own connection and commit: a load with respect_ignored is two       *)
(* steps, and the statements of other threads run between them.            *)

\* Two links join the same pair of nodes (the graph is undirected).
Parallel(e, f) == {e.source, e.target} = {f.source, f.target}

\* json_graph.node_link_graph: the MultiGraph of the stored links.
node_link_graph(links) == links

\* The body of get_run_area_graph, lines 349-363: the graph column of the
\* first row of the area; no row, or a NULL graph, gives None.
LoadGraph(table, username, area_name) ==
    LET rows == SelectSeq(table,
                          LAMBDA row : /\ row.username = username
                                       /\ row.area_name = area_name)
    IN  IF rows = <<>> THEN Null
        ELSE IF rows[1].graph.null THEN Null
        ELSE Blob(node_link_graph(rows[1].graph.value))

\* lru_cache(maxsize=1): a call with the arguments of the cached entry gets
\* the cached object, any other call runs the body and replaces the entry.
CachedGraph(cache, table, username, area_name) ==
    IF /\ cache.filled
       /\ cache.username = username
       /\ cache.area_name = area_name
    THEN cache.value
    ELSE LoadGraph(table, username, area_name)

CacheEntry(username, area_name, value) ==
    [filled |-> TRUE, username |-> username, area_name |-> area_name,
     value |-> value]

\* MultiGraph.remove_edges_from(to_remove), lines 115-120: to_remove holds
\* one (u, v) per edge whose segment_id is ignored, and removing (u, v)
\* without a key takes the edge between u and v that was added last.
remove_edges_from(g, ignored_ids) ==
    {e \in g :
        Cardinality({f \in g : Parallel(e, f) /\ f.key > e.key})
          >= Cardinality({f \in g : /\ Parallel(e, f)
                                    /\ f.segment_id \in ignored_ids})}

\* The request that loads graphs for routing; the other request toggles
\* ignored segments meanwhile.
Router == "second"

\* A get_routing_graph call is between its two statements. The function is
\* called by the coroutine route alone and get_run_area_graph by it alone,
\* so one load runs at a time, while the statements of the thread pool and
\* of the background tasks (update_ignored_segments, insert_run_area_graph)
\* run between the statements of a load.
Loading == \E p \in Procs : calls[p].pc = "ignored_segment_ids"

\* get_run_area_graph(username, area_name)
GetRunAreaGraph(username, area_name) ==
    /\ ~Loading
    /\ LET value == CachedGraph(graph_cache, run_areas, username, area_name)
       IN  /\ graph_cache' = CacheEntry(username, area_name, value)
           /\ observed' = [op |-> "get_run_area_graph",
                           username |-> username, area_name |-> area_name,
                           respect_ignored |-> FALSE, error |-> "",
                           value |-> value]
    /\ UNCHANGED <<pipelineVars, tableVars, calls>>

\* get_routing_graph(current_user, db, respect_ignored), line 111: the
\* graph comes from get_run_area_graph, and without respect_ignored it is
\* returned as it is.
GetRoutingGraph(p, username, area_name, respect_ignored) ==
    /\ Returned(p)
    /\ ~Loading
    /\ LET graph_loaded ==
               CachedGraph(graph_cache, run_areas, username, area_name)
       IN  /\ graph_cache' = CacheEntry(username, area_name, graph_loaded)
           /\ calls' = [calls EXCEPT ![p] =
                           [op |-> "get_routing_graph",
                            pc |-> IF respect_ignored
                                   THEN "ignored_segment_ids"
                                   ELSE "returned",
                            username |-> username, area_name |-> area_name,
                            respect_ignored |-> respect_ignored,
                            error |-> ""]]
           /\ observed' =
                  IF respect_ignored THEN NoObservation
                  ELSE [op |-> "get_routing_graph",
                        username |-> username, area_name |-> area_name,
                        respect_ignored |-> FALSE, error |-> "",
                        value |-> graph_loaded]
    /\ UNCHANGED <<pipelineVars, tableVars>>

\* get_routing_graph, lines 113-122: the ignored ids are read by a
\* statement of their own, and the edges of the ignored segments are
\* removed from the object that get_run_area_graph returned, which is the
\* object the cache holds. Without a graph, graph.edges raises
\* AttributeError.
RemoveIgnoredEdges(p) ==
    /\ calls[p].pc = "ignored_segment_ids"
    /\ LET graph_loaded == graph_cache.value
           ignored_ids ==
               IgnoredSet(ignored_segments,
                          BaseRunArea(calls[p].username, calls[p].area_name))
           value == IF graph_loaded.null THEN graph_loaded
                    ELSE Blob(remove_edges_from(graph_loaded.value,
                                                ignored_ids))
           error == IF graph_loaded.null THEN "AttributeError" ELSE ""
       IN  /\ graph_cache' = [graph_cache EXCEPT !.value = value]
           /\ calls' = [calls EXCEPT
                           ![p].pc = IF graph_loaded.null
                                     THEN "raised" ELSE "returned",
                           ![p].error = error]
           /\ observed' = [op |-> "get_routing_graph",
                           username |-> calls[p].username,
                           area_name |-> calls[p].area_name,
                           respect_ignored |-> TRUE, error |-> error,
                           value |-> value]
    /\ UNCHANGED <<pipelineVars, tableVars>>

\* insert_run_area_graph, lines 334-344: the UPDATE sets the graph of the
\* rows of the area, whether they had one or not (creating an area again
\* under its name stores its graph anew, main.py, lines 749-750). What was
\* read before the store is not looked at any more.
StoreRetrievedGraph(username, area_name, links) ==
    /\ LoadGraph(run_areas, username, area_name) # Blob(links)
    /\ run_areas' = SetColumn(run_areas, username, area_name, "graph",
                              Blob(links))
    /\ observed' = NoObservation
    /\ UNCHANGED <<pipelineVars, sub_run_areas, logged_runs,
                   segment_traversals, ignored_segments, run_ids_issued,
                   graph_cache, calls>>

\* The graphs that are stored: links between nodes 1, 2 and 3, two of them
\* parallel.
StoredGraphs ==
    {{Link(1, 2, 0, "1_0")},
     {Link(1, 2, 0, "1_0"), Link(1, 2, 1, "2_0")},
     {Link(1, 2, 0, "1_0"), Link(2, 3, 0, "3_0")},
     {Link(1, 2, 0, "1_0"), Link(1, 2, 1, "2_0"), Link(2, 3, 0, "3_0")}}

\* Both areas exist, each with a stored graph or, its creation being under
\* way, without one yet; the other area has some segments ignored.
InitCache ==
    /\ \E first \in {Null} \cup {Blob(g) : g \in StoredGraphs},
          second \in {Null} \cup {Blob(g) : g \in StoredGraphs} :
          run_areas =
              <<RunAreaRow(ToggledArea.username, ToggledArea.area_name,
                           first, Null, 1),
                RunAreaRow(OtherArea.username, OtherArea.area_name,
                           second, Null, 1)>>
    /\ \E other \in {{}, {"1_0"}} :
          ignored_segments =
              [row \in IgnoredRows |->
                  IF InArea(row, OtherArea) /\ row.segment_id \in other
                  THEN 1 ELSE 0]
    /\ sub_run_areas = <<>>
    /\ logged_runs = {}
    /\ segment_traversals = {}
    /\ run_ids_issued = 0
    /\ graph_cache = EmptyCache
    /\ calls = [p \in Procs |-> Idle]
    /\ observed = NoObservation
    /\ RouteIdle
    /\ IdsIdle
    /\ NetworkIdle

\* The toggles requested while graphs are loaded: of one segment or none.
ToggleRequests ==
    {segment_collection \in SegmentCollections :
        Len(segment_collection.segment_ids) <= 1}

NextCache ==
    \/ \E run_area \in {ToggledArea, OtherArea} :
          GetRunAreaGraph(run_area.username, run_area.area_name)
    \/ \E run_area \in {ToggledArea, OtherArea},
          respect_ignored \in BOOLEAN :
          GetRoutingGraph(Router, run_area.username, run_area.area_name,
                          respect_ignored)
    \/ RemoveIgnoredEdges(Router)
    \/ \E run_area \in {ToggledArea, OtherArea}, links \in StoredGraphs :
          StoreRetrievedGraph(run_area.username, run_area.area_name, links)
    \/ \E segment_collection \in ToggleRequests :
          UpdateIgnoredSegments(Toggler, segment_collection)
    \/ AddNewIgnoredSegments(Toggler)
    \/ RemoveNoLongerIgnoredSegments(Toggler)

SpecCache == InitCache /\ [][NextCache]_vars

-----------------------------------------------------------------------------
(* Claims about graph loading.                                             *)

\* The step is a load by the named operation.
Loads(op) == observed' # observed /\ observed'.op = op

\* The links stored for the area, none when it has no graph.
PersistedLinks(username, area_name) ==
    IF LoadGraph(run_areas, username, area_name).null THEN {}
    ELSE LoadGraph(run_areas, username, area_name).value

\* C11: whatever get_routing_graph calls with respect_ignored=True came
\* before, a get_routing_graph call with respect_ignored=False returns a
\* graph that has every edge of the graph stored for the area.
C11_IgnoreFilteringLeavesLoadedGraph ==
    [][(Loads("get_routing_graph") /\ ~observed'.respect_ignored)
       => /\ PersistedLinks(observed'.username, observed'.area_name) # {}
             => ~observed'.value.null
          /\ ~observed'.value.null
             => PersistedLinks(observed'.username, observed'.area_name)
                  \subseteq observed'.value.value]_vars

\* C20: whatever loads of other users and areas came before,
\* get_run_area_graph(u, a) returns the graph stored for (u, a).
C20_CacheIsKeyedByUserAndArea ==
    [][Loads("get_run_area_graph")
       => observed'.value
            = LoadGraph(run_areas, observed'.username,
                        observed'.area_name)]_vars

-----------------------------------------------------------------------------
(* Accounting queries (backend.py, lines 584-692; main.py, lines 395-423). *)
(*                                                                         *)
(* A date is a day number that stands for its "YYYY-MM-DD" text, the       *)
(* format of models.LoggedRun.date: the date column holds that text and    *)
(* the clauses of make_date_clause compare it as text, which for this      *)
(* format is the order of the days. A query is one SELECT, so one step.    *)

\* The logged runs of the area whose date passes the date clause: the
\* subquery lr of first_seen and number_of_traversals_in_date_range.
RunsOfAreaInDateRange(run_area, start_date, end_date) ==
    {lr \in logged_runs :
        /\ make_date_clause(lr.date, start_date, end_date)
        /\ lr.username = run_area.username
        /\ lr.area_name = run_area.area_name}

\* SUM(st.traversals) over a group of joined rows.
RECURSIVE SumOfTraversals(_)
SumOfTraversals(rows) ==
    IF rows = {} THEN 0
    ELSE LET row == CHOOSE r \in rows : TRUE
         IN  row.traversals + SumOfTraversals(rows \ {row})

\* number_of_traversals_in_date_range: the traversal rows joined to the
\* runs of the subquery, grouped by segment_id. The SELECT has no ORDER BY:
\* the result is read as a set of entries.
number_of_traversals_in_date_range(run_area, start_date, end_date) ==
    LET lr == RunsOfAreaInDateRange(run_area, start_date, end_date)
        joined == {st \in segment_traversals :
                      \E r \in lr : st.run_id = r.id}
    IN  {[segment_id |-> segment_id,
          num_traversals |->
              SumOfTraversals({st \in joined : st.segment_id = segment_id})] :
            segment_id \in {st.segment_id : st \in joined}}

\* MIN(lr.date) of a group; the dates are day numbers from 1.
MinDate(dates) == CHOOSE d \in dates : \A e \in dates : d <= e

\* A variant of the query that takes the latest date of each group.
last_seen(run_area, start_date, end_date) ==
    LET lr == RunsOfAreaInDateRange(run_area, start_date, end_date)
        joined == {x \in segment_traversals \X lr : x[1].run_id = x[2].id}
    IN  {[date |-> CHOOSE d \in {x[2].date : x \in
                                   {y \in joined :
                                       y[1].segment_id = segment_id}} :
                       \A e \in {x[2].date : x \in
                                   {y \in joined :
                                       y[1].segment_id = segment_id}} :
                           d >= e,
          segment_id |-> segment_id] :
            segment_id \in {x[1].segment_id : x \in joined}}

\* first_seen, lines 592-619: MIN(lr.date) and segment_id of each group of
\* the joined rows.
first_seen(run_area, start_date, end_date) ==
    LET lr == RunsOfAreaInDateRange(run_area, start_date, end_date)
        joined == {x \in segment_traversals \X lr : x[1].run_id = x[2].id}
    IN  {[date |-> MinDate({x[2].date : x \in
                               {y \in joined :
                                   y[1].segment_id = segment_id}}),
          segment_id |-> segment_id] :
            segment_id \in {x[1].segment_id : x \in joined}}

\* ORDER BY MIN(lr.date): the orders in which the query can return its
\* rows; rows of the same date come in an order the statement leaves open.
OrderedByDate(rows) ==
    {ordered \in [1..Cardinality(rows) -> rows] :
        /\ \A i, j \in DOMAIN ordered : i # j => ordered[i] # ordered[j]
        /\ \A i, j \in DOMAIN ordered :
              i < j => ordered[i].date <= ordered[j].date}

\* The loop of the /first_seen endpoint, lines 402-423, after k rows: the
\* dictionary built so far, the current date and its segments.
RECURSIVE GroupingAfter(_, _)
GroupingAfter(first_traversals, k) ==
    IF k = 0
    THEN [first_seen_by_date |-> <<>>, current_date |-> NoDate,
          current_segments |-> <<>>]
    ELSE LET before == GroupingAfter(first_traversals, k - 1)
             traversal == first_traversals[k]
         IN  IF before.current_date = NoDate
             THEN [before EXCEPT
                     !.current_date = traversal.date,
                     !.current_segments = <<traversal.segment_id>>]
             ELSE IF before.current_date = traversal.date
             THEN [before EXCEPT
                     !.current_segments =
                         Append(@, traversal.segment_id)]
             ELSE [first_seen_by_date |->
                       [d \in DOMAIN before.first_seen_by_date
                                \cup {before.current_date} |->
                           IF d = before.current_date
                           THEN before.current_segments
                           ELSE before.first_seen_by_date[d]],
                   current_date |-> traversal.date,
                   current_segments |-> <<traversal.segment_id>>]

\* The dictionary the /first_seen endpoint returns.
FirstSeenByDate(first_traversals) ==
    IF first_traversals = <<>> THEN <<>>
    ELSE LET last == GroupingAfter(first_traversals, Len(first_traversals))
         IN  [d \in DOMAIN last.first_seen_by_date
                      \cup {last.current_date} |->
                 IF d = last.current_date THEN last.current_segments
                 ELSE last.first_seen_by_date[d]]

\* A call of number_of_traversals_in_date_range.
NumberOfTraversals(run_area, start_date, end_date) ==
    /\ observed' =
           [op |-> "number_of_traversals_in_date_range",
            run_area |-> run_area,
            start_date |-> start_date, end_date |-> end_date,
            value |-> number_of_traversals_in_date_range(
                          run_area, start_date, end_date)]
    /\ UNCHANGED <<pipelineVars, tableVars, graph_cache, calls>>

\* A /first_seen request: the query and the grouping of its rows.
FirstSeen(run_area, start_date, end_date) ==
    /\ \E first_traversals \in
             OrderedByDate(first_seen(run_area, start_date, end_date)) :
          observed' =
              [op |-> "first_seen", run_area |-> run_area,
               start_date |-> start_date, end_date |-> end_date,
               first_traversals |-> first_traversals,
               value |-> FirstSeenByDate(first_traversals)]
    /\ UNCHANGED <<pipelineVars, tableVars, graph_cache, calls>>

\* Days before, in and after the queried range.
AccountDates == {1, 2, 3}
QueryBounds == {NoDate, 2}

\* The segment_traversals of the stored runs.
AccountTraversalMaps ==
    {first \cup second :
        first \in {{}, {[segment_id |-> "1_0", traversals |-> 1]},
                   {[segment_id |-> "1_0", traversals |-> 2]}},
        second \in {{}, {[segment_id |-> "2_0", traversals |-> 1]}}}

\* Up to MaxRuns runs have been stored, for the queried area or for the
\* other user's area of the same name, each with its traversal rows.
InitAccounts ==
    /\ \E stored \in SUBSET (1..MaxRuns),
          owner \in [1..MaxRuns -> {ToggledArea, OtherArea}],
          date \in [1..MaxRuns -> AccountDates],
          traversals \in [1..MaxRuns -> AccountTraversalMaps] :
          /\ logged_runs =
                 {[id |-> id, username |-> owner[id].username,
                   area_name |-> owner[id].area_name,
                   date |-> date[id], linestring |-> NoneValue] :
                     id \in stored}
          /\ segment_traversals =
                 UNION {{[run_id |-> id, segment_id |-> t.segment_id,
                          traversals |-> t.traversals] :
                            t \in traversals[id]} : id \in stored}
    /\ run_ids_issued = MaxRuns
    /\ run_areas = <<>>
    /\ sub_run_areas = <<>>
    /\ ignored_segments = <<>>
    /\ graph_cache = EmptyCache
    /\ calls = [p \in Procs |-> Idle]
    /\ observed = NoObservation
    /\ RouteIdle
    /\ IdsIdle
    /\ NetworkIdle

NextAccounts ==
    \/ \E start_date \in QueryBounds, end_date \in QueryBounds :
          NumberOfTraversals(ToggledArea, start_date, end_date)
    \/ \E start_date \in QueryBounds, end_date \in QueryBounds :
          FirstSeen(ToggledArea, start_date, end_date)

SpecAccounts == InitAccounts /\ [][NextAccounts]_vars

-----------------------------------------------------------------------------
(* Claims about the accounting queries.                                    *)

\* The date lies in the inclusive range; an omitted bound is unbounded.
InInclusiveRange(date, start_date, end_date) ==
    /\ start_date = NoDate \/ start_date <= date
    /\ end_date = NoDate \/ date <= end_date

\* The runs of the queried area in the queried range of the observation.
ObservedRuns ==
    {lr \in logged_runs :
        /\ lr.username = observed.run_area.username
        /\ lr.area_name = observed.run_area.area_name
        /\ InInclusiveRange(lr.date, observed.start_date,
                            observed.end_date)}

\* The traversal rows of the segment in those runs.
ObservedTraversals(segment_id) ==
    {st \in segment_traversals :
        /\ st.segment_id = segment_id
        /\ \E lr \in ObservedRuns : lr.id = st.run_id}

\* The traversal counts of the segment in those runs, run by run.
TraversalsPerRun(segment_id) ==
    [id \in 1..run_ids_issued |->
        IF \E st \in ObservedTraversals(segment_id) : st.run_id = id
        THEN (CHOOSE st \in ObservedTraversals(segment_id) :
                 st.run_id = id).traversals
        ELSE 0]

\* C21: number_of_traversals_in_date_range has, for each segment traversed
\* in a run of the area dated within the inclusive range, one entry with
\* the sum of the segment's traversal counts over those runs, and no entry
\* for any other segment.
C21_TraversalsSummedPerSegmentInRange ==
    observed.op = "number_of_traversals_in_date_range"
    => /\ \A segment_id \in IgnorableSegmentIds :
             IF ObservedTraversals(segment_id) # {}
             THEN {entry \in observed.value :
                      entry.segment_id = segment_id}
                    = {[segment_id |-> segment_id,
                        num_traversals |->
                            SeqSum([i \in 1..run_ids_issued |->
                                      TraversalsPerRun(segment_id)[i]])]}
             ELSE \A entry \in observed.value :
                     entry.segment_id # segment_id
       /\ \A entry \in observed.value :
             entry.segment_id \in IgnorableSegmentIds

\* C21 witness: a query with both bounds has summed the counts of two runs
\* of the area for a segment.
C21_Witness ==
    /\ observed.op = "number_of_traversals_in_date_range"
    /\ observed.start_date # NoDate
    /\ observed.end_date # NoDate
    /\ [segment_id |-> "1_0", num_traversals |-> 3] \in observed.value

\* The dates of the runs of the observation that traversed the segment.
ObservedDates(segment_id) ==
    {lr.date : lr \in {r \in ObservedRuns :
                          \E st \in ObservedTraversals(segment_id) :
                             st.run_id = r.id}}

\* The indices of the sequence that hold the element.
Positions(sequence, element) ==
    {i \in DOMAIN sequence : sequence[i] = element}

\* C22: first_seen returns one entry per segment traversed by a run of the
\* area within the inclusive date range, dated with the earliest such run
\* date, the entries in ascending order of date; the /first_seen grouping
\* lists each such segment under exactly one date, its earliest, and lists
\* nothing else.
C22_FirstSeenIsEarliestDateInRange ==
    observed.op = "first_seen"
    => /\ \A segment_id \in IgnorableSegmentIds :
             LET entries ==
                     {i \in DOMAIN observed.first_traversals :
                         observed.first_traversals[i].segment_id
                           = segment_id}
                 listed ==
                     {d \in DOMAIN observed.value :
                         Positions(observed.value[d], segment_id) # {}}
             IN  IF ObservedDates(segment_id) = {}
                 THEN entries = {} /\ listed = {}
                 ELSE /\ Cardinality(entries) = 1
                      /\ \A i \in entries :
                            /\ observed.first_traversals[i].date
                                 \in ObservedDates(segment_id)
                            /\ \A d \in ObservedDates(segment_id) :
                                  observed.first_traversals[i].date <= d
                      /\ Cardinality(listed) = 1
                      /\ \A d \in listed :
                            /\ d \in ObservedDates(segment_id)
                            /\ \A e \in ObservedDates(segment_id) : d <= e
                            /\ Cardinality(Positions(observed.value[d],
                                                     segment_id)) = 1
       /\ \A i, j \in DOMAIN observed.first_traversals :
             i < j => observed.first_traversals[i].date
                        <= observed.first_traversals[j].date
       /\ \A i \in DOMAIN observed.first_traversals :
             observed.first_traversals[i].segment_id
               \in IgnorableSegmentIds
       /\ \A d \in DOMAIN observed.value :
             \A k \in DOMAIN observed.value[d] :
                observed.value[d][k] \in IgnorableSegmentIds

\* C22 witness: a segment traversed on two dates of a range with a lower
\* bound is listed once, under the earlier of the two dates.
C22_Witness ==
    /\ observed.op = "first_seen"
    /\ observed.start_date # NoDate
    /\ Cardinality(ObservedDates("1_0")) = 2
    /\ Len(observed.first_traversals) = 1
    /\ DOMAIN observed.value = {2}
    /\ observed.value[2] = <<"1_0">>

-----------------------------------------------------------------------------
(* A routing request from the loading of the graph on (main.py, lines      *)
(* 461-497). get_routing_graph hands on what get_run_area_graph returned,  *)
(* None when the area has no row or its graph column is NULL; route takes  *)
(* graph.edges[...] (line 475) or graph[...] (line 497) of it before any   *)
(* try block, and the application installs a handler for status 401 only.  *)

\* The graph stored for the area of the requests: segments 1-2, 2-3, 3-4.
LoadedSegments == {RingEdge(i, 10) : i \in 1..3}

\* POST /route for the user's active area: the graph is loaded, then the
\* request is routed on it; without a graph the first access to it raises
\* AttributeError (same segment) or TypeError (any other request).
RouteOnStoredGraph(username, area_name) ==
    /\ result.status = "pending"
    /\ LET loaded ==
               CachedGraph(graph_cache, run_areas, username, area_name)
       IN  /\ graph_cache' = CacheEntry(username, area_name, loaded)
           /\ IF loaded.null
              THEN result' = Raised
              ELSE \E paths \in ShortestPathReturns(loaded.value,
                                                    snap_data) :
                      result' = RouteResponse(loaded.value, snap_data,
                                              paths)
    /\ UNCHANGED <<graph, snap_data, idVars, networkVars, tableVars, calls,
                   observed>>

\* The user's active area has no row, a row whose graph is still NULL, or
\* a row with its graph; the request names two segments of the area.
InitStoredRoute ==
    /\ run_areas \in
           {<<>>,
            <<RunAreaRow(ToggledArea.username, ToggledArea.area_name,
                         Null, Null, 1)>>,
            <<RunAreaRow(ToggledArea.username, ToggledArea.area_name,
                         Blob(LoadedSegments), Null, 1)>>}
    /\ \E e \in LoadedSegments, f \in LoadedSegments :
          \E d \in {x \in SnapDistances : x <= e.length},
             t \in {x \in SnapDistances : x <= f.length} :
             snap_data = SnapData(e, d, f, t)
    /\ graph = {}
    /\ result = Pending
    /\ sub_run_areas = <<>>
    /\ logged_runs = {}
    /\ segment_traversals = {}
    /\ ignored_segments = <<>>
    /\ run_ids_issued = 0
    /\ graph_cache = EmptyCache
    /\ calls = <<>>
    /\ observed = NoObservation
    /\ IdsIdle
    /\ NetworkIdle

NextStoredRoute ==
    RouteOnStoredGraph(ToggledArea.username, ToggledArea.area_name)

SpecStoredRoute == InitStoredRoute /\ [][NextStoredRoute]_vars

\* C23: a routing request for a user whose active area has no stored graph
\* (no row, or a NULL graph column) gets the empty route, not an unhandled
\* exception.
C23_RouteWithoutGraphIsEmpty ==
    (/\ result.status # "pending"
     /\ LoadGraph(run_areas, ToggledArea.username,
                  ToggledArea.area_name).null)
    => result = Ok(<<>>)

-----------------------------------------------------------------------------
(* Further claims about the router, on the requests of SpecRoute.          *)

\* A route of the general case has come back with traversals in it.
GeneralRouteReturned ==
    /\ InGeneralCase
    /\ result.status = "ok"
    /\ result.route # <<>>

\* The nodes at which the full traversals of a route end, in order.
WalkedNodes(r) == [i \in 1..(Len(r) - 2) |-> r[i + 1].end_node]

\* C24: a general-case route is one partial traversal of the from-segment
\* ending at the chosen from-node's end of it (0 for its start_node, its
\* length for its end_node), then one full traversal per edge of a shortest
\* path from the chosen from-node to the chosen to-node, each starting where
\* the one before ended and as long as the shortest edge between its two
\* nodes, then one partial traversal of the to-segment starting at the
\* chosen to-node's end of it.
C24_GeneralRouteIsPartialPathPartial ==
    GeneralRouteReturned =>
        LET r == result.route
            n == Len(r)
            x == SelectedPair(r)[1]
            y == SelectedPair(r)[2]
        IN  /\ n >= 3
            /\ r[1].kind = "partial"
            /\ r[1].segment_id = FromSegment.segment_id
            /\ r[1].start_distance_metres = FromDistance
            /\ r[1].end_distance_metres
                 = (IF x = FromSegment.u THEN 0 ELSE FromSegment.length)
            /\ \A i \in 2..(n - 1) :
                  /\ r[i].kind = "full"
                  /\ i > 2 => r[i].start_node = r[i - 1].end_node
                  /\ EdgesBetween(graph, r[i].start_node, r[i].end_node)
                       # {}
                  /\ r[i].length_metres
                       = SetMin({e.length :
                                   e \in EdgesBetween(graph, r[i].start_node,
                                                      r[i].end_node)})
            /\ r[2].kind = "full" /\ r[2].start_node = x
            /\ r[n - 1].kind = "full" /\ r[n - 1].end_node = y
            /\ <<x>> \o WalkedNodes(r) \in ShortestPaths(graph, x, y)
            /\ r[n].kind = "partial"
            /\ r[n].segment_id = ToSegment.segment_id
            /\ r[n].start_distance_metres
                 = (IF y = ToSegment.u THEN 0 ELSE ToSegment.length)
            /\ r[n].end_distance_metres = ToDistance

\* The four candidate node pairs in the order the router tries them.
CandidateOrder ==
    << <<FromSegment.u, ToSegment.u>>, <<FromSegment.u, ToSegment.v>>,
       <<FromSegment.v, ToSegment.u>>, <<FromSegment.v, ToSegment.v>> >>

\* The candidates whose total length is the least of all reachable ones.
MinimalCandidates ==
    {k \in 1..4 :
        /\ CandidateOrder[k] \in ReachablePairs
        /\ \A p \in ReachablePairs :
              TotalVia(CandidateOrder[k][1], CandidateOrder[k][2])
                <= TotalVia(p[1], p[2])}

\* C25: when several candidate node pairs have the same minimal total
\* length, the route is built from the first of them in the order
\* (from_start, to_start), (from_start, to_end), (from_end, to_start),
\* (from_end, to_end).
C25_TieKeepsFirstCandidate ==
    (GeneralRouteReturned /\ Cardinality(MinimalCandidates) >= 2) =>
        SelectedPair(result.route) = CandidateOrder[SetMin(MinimalCandidates)]

\* C30: in a route of the adjacent or of the general case, the partial
\* traversal of the to-segment has starts_at_end = true exactly when it
\* starts at the end_node's end of the segment, that is at a distance other
\* than 0.
C30_StartsAtEndWhenEnteredAtEndNode ==
    ((InAdjacentCase \/ InGeneralCase)
     /\ result.status = "ok" /\ result.route # <<>>) =>
        LET last == result.route[Len(result.route)]
        IN  last.starts_at_end = (last.start_distance_metres # 0)

-----------------------------------------------------------------------------
(* Further claims about graph loading, on the loads of SpecCache.          *)

\* C26: get_routing_graph with respect_ignored=True returns a graph whose
\* edges are exactly the edges of the graph it loaded whose segment_id is
\* not ignored for the area, also when an ignored edge is one of several
\* parallel edges between the same two nodes.
C26_FilterRemovesExactlyIgnoredEdges ==
    [][\A p \in Procs :
          (/\ calls[p].pc = "ignored_segment_ids"
           /\ calls'[p].pc = "returned")
          => LET input == graph_cache.value
                 ignored_ids ==
                     IgnoredSet(ignored_segments,
                                BaseRunArea(calls[p].username,
                                            calls[p].area_name))
             IN  observed'.value.value
                   = {e \in input.value :
                         e.segment_id \notin ignored_ids}]_vars


\* Loads and stores alone, without the filtering of get_routing_graph.
NextReload ==
    \/ \E run_area \in {ToggledArea, OtherArea} :
          GetRunAreaGraph(run_area.username, run_area.area_name)
    \/ \E run_area \in {ToggledArea, OtherArea}, links \in StoredGraphs :
          StoreRetrievedGraph(run_area.username, run_area.area_name, links)

SpecReload == InitCache /\ [][NextReload]_vars

\* C28: once insert_run_area_graph(username, area_name, G) has completed,
\* every later get_run_area_graph(username, area_name) returns G, also
\* when the key was loaded before the graph was stored and when the graph
\* was stored anew after an earlier load.
C28_StoredGraphIsTheOneLoaded ==
    [][(/\ Loads("get_run_area_graph")
        /\ ~LoadGraph(run_areas, observed'.username,
                      observed'.area_name).null)
       => observed'.value
            = LoadGraph(run_areas, observed'.username,
                        observed'.area_name)]_vars

-----------------------------------------------------------------------------
(* A further claim about the network builder, on the runs of SpecNetwork.  *)

\* The segment ids that the identity assigner gives the edges when it is
\* applied to the whole edge list, each with the edge's road class.
IdsOverAllEdges ==
    LET all == EdgesInOrder(network.edges)
        ids == assign_segment_ids([i \in 1..Len(all) |-> all[i].osmid])
    IN  [i \in 1..Len(all) |->
            [segment_id |-> ids[i], highway |-> all[i].highway]]

\* The edge's road class matches none of the excluded tags.
NotExcluded(row) ==
    \A tag \in highway_tags_to_filter : ~Contains(row.highway, tag)

\* C27: the identity assigner is applied before the edges are filtered by
\* road class, so the segment_id of every surviving edge is the one it gets
\* over the unfiltered edge list, whatever tags are excluded.
C27_IdsAssignedBeforeTagFilter ==
    stage = "assigned" =>
        LET surviving == SelectSeq(IdsOverAllEdges, NotExcluded)
        IN  /\ Len(segment_gdf.rows) = Len(surviving)
            /\ \A i \in 1..Len(surviving) :
                  segment_gdf.rows[i].segment_id = surviving[i].segment_id

-----------------------------------------------------------------------------
(* A further claim about the run records, on the requests of SpecRuns.     *)

\* What the accounting queries return for an area, over all dates.
AccountOf(run_area) ==
    <<runs_in_date_range(run_area, NoDate, NoDate),
      uploaded_runs_in_date_range(run_area, NoDate, NoDate),
      number_of_traversals_in_date_range(run_area, NoDate, NoDate),
      first_seen(run_area, NoDate, NoDate)>>

\* C29: no step of a store_run, delete_run_by_id or delete_runs_on_date
\* request made for one (username, area_name) changes what the accounting
\* queries return for another (username, area_name).
C29_RequestsLeaveOtherAreasAlone ==
    [][\A p \in Procs :
          (/\ calls'[p] # calls[p]
           /\ calls'[p].op \in {"store_run", "delete_run_by_id",
                                "delete_runs_on_date"})
          => \A run_area \in RunRequestAreas \ {calls'[p].run_area} :
                AccountOf(run_area)' = AccountOf(run_area)]_vars

====
